---------------------------- MODULE Spec2Model ----------------------------
(***************************************************************************)
(* Model of the exoplanet classification engine of ukiyo-nasa: the         *)
(* PredictionInterface component (generatePredictions and the handlers     *)
(* around it) together with the UploadPage state that receives its         *)
(* results.                                                                *)
(*                                                                         *)
(* JavaScript strings are sequences of one-character strings, so that      *)
(* toUpperCase, includes, the regular expressions, parseFloat, toString,   *)
(* toFixed and charCodeAt are computed character by character.  JavaScript *)
(* numbers are records [k, v]: k = "fin" with v the value in units of      *)
(* 1/Scale (exact decimals with five fractional digits), or k = "pinf",    *)
(* "ninf", "nan" for Infinity, -Infinity and NaN.  Every number the model  *)
(* feeds to the classifier has at most five decimals, and the synthetic    *)
(* values min + (h % 10000)/10000 * (max - min) are exact at that          *)
(* resolution; the binary rounding error of IEEE doubles is not modelled,   *)
(* so the last digit printed by toFixed, and the hash of the printed form  *)
(* of a synthetic value (which shifts the fallback confidence by less than *)
(* ten points), can differ from what a browser computes.                   *)
(***************************************************************************)
EXTENDS Integers, Sequences, FiniteSets, TLC

(***************************************************************************)
(* Bounds of the model.                                                    *)
(***************************************************************************)
MaxRows == 2

(***************************************************************************)
(* The state of the component PredictionInterface and of the page that    *)
(* hosts it.                                                               *)
(***************************************************************************)
VARIABLES
  data,               \* the data prop: uploadedData.data of UploadPage
  predictions,        \* useState(null)
  isProcessing,       \* useState(false)
  selectedRange,      \* useState({ start: 0, end: 10 })
  processingCount,    \* useState(10)
  timer,              \* the pending setTimeout callback with the variables it closed over
  predictionResults,  \* UploadPage: useState(null), set by onResults
  uncaught,           \* an exception escaped a timer callback
  consoleError,       \* the last call of generatePredictions wrote to console.error
  mlRequest,          \* MLService: the data of the habitability request being served
  mlResponse,         \* MLService: what predictHabitabilityRuleBased returned for it
  service,            \* MLService: the fields isInitialized, usePythonService, pythonServiceProcess of an instance
  serviceCall,        \* MLService: the last method call on the instance and what it returned or threw
  http                \* the last request to POST /api/predict or /api/predict/batch with its response

vars == <<data, predictions, isProcessing, selectedRange, processingCount, timer, predictionResults, uncaught,
          consoleError, mlRequest, mlResponse, service, serviceCall, http>>

\* The variables of the component and its page, and those of MLService.
uiVars == <<data, predictions, isProcessing, selectedRange, processingCount, timer, predictionResults, uncaught,
            consoleError>>
mlVars == <<mlRequest, mlResponse, service, serviceCall, http>>

(***************************************************************************)
(* Characters and strings.  Ascii lists the printable characters 32..126   *)
(* in code order (the entry of code 96 stands for the grave accent, which  *)
(* no string of the model contains).                                       *)
(***************************************************************************)
Ascii ==
  <<
    " ", "!", "\"", "#", "$", "%", "&", "'", "(", ")", "*", "+", ",", "-", ".", "/",
    "0", "1", "2", "3", "4", "5", "6", "7", "8", "9", ":", ";", "<", "=", ">", "?",
    "@", "A", "B", "C", "D", "E", "F", "G", "H", "I", "J", "K", "L", "M", "N", "O",
    "P", "Q", "R", "S", "T", "U", "V", "W", "X", "Y", "Z", "[", "\\", "]", "^", "_",
    "grave", "a", "b", "c", "d", "e", "f", "g", "h", "i", "j", "k", "l", "m", "n", "o",
    "p", "q", "r", "s", "t", "u", "v", "w", "x", "y", "z", "{", "|", "}", "~"
  >>

AsciiIndex == [c \in {Ascii[i] : i \in 1..Len(Ascii)} |-> CHOOSE i \in 1..Len(Ascii) : Ascii[i] = c]

\* String.prototype.charCodeAt for one character (printable ASCII: 32..126).
charCode(c) == AsciiIndex[c] + 31

IsUpper(c) == charCode(c) >= 65 /\ charCode(c) <= 90
IsLower(c) == charCode(c) >= 97 /\ charCode(c) <= 122
IsLetter(c) == IsUpper(c) \/ IsLower(c)
IsDigit(c) == charCode(c) >= 48 /\ charCode(c) <= 57
DigitVal(c) == charCode(c) - 48
DigitChar(d) == Ascii[d + 17]

toLowerCase(s) == [i \in 1..Len(s) |-> IF IsUpper(s[i]) THEN Ascii[AsciiIndex[s[i]] + 32] ELSE s[i]]
toUpperCase(s) == [i \in 1..Len(s) |-> IF IsLower(s[i]) THEN Ascii[AsciiIndex[s[i]] - 32] ELSE s[i]]

\* s.substring(i) for a 0-based i <= s.length.
Drop(s, i) == SubSeq(s, i + 1, Len(s))

StartsWith(s, p) == Len(s) >= Len(p) /\ SubSeq(s, 1, Len(p)) = p

\* String.prototype.includes.
includes(s, sub) == \E i \in 0..(Len(s) - Len(sub)) : SubSeq(s, i + 1, i + Len(sub)) = sub

\* The number of leading decimal digits of s.
RECURSIVE DigitRun(_)
DigitRun(s) == IF Len(s) > 0 /\ IsDigit(s[1]) THEN 1 + DigitRun(Tail(s)) ELSE 0

\* The value of a string of decimal digits.
RECURSIVE DigitsValue(_)
DigitsValue(s) == IF Len(s) = 0 THEN 0 ELSE 10 * DigitsValue(SubSeq(s, 1, Len(s) - 1)) + DigitVal(s[Len(s)])

\* The decimal digits of a natural number.
RECURSIVE NatToString(_)
NatToString(n) == IF n < 10 THEN <<DigitChar(n)>> ELSE NatToString(n \div 10) \o <<DigitChar(n % 10)>>

(***************************************************************************)
(* Numbers.                                                                *)
(***************************************************************************)
RECURSIVE Pow10(_)
Pow10(n) == IF n = 0 THEN 1 ELSE 10 * Pow10(n - 1)

\* Numbers are held in units of 1/Scale: five decimal digits.
Scale == Pow10(5)

Fin(v) == [k |-> "fin", v |-> v]
PInf == [k |-> "pinf", v |-> 0]
NInf == [k |-> "ninf", v |-> 0]
NaN == [k |-> "nan", v |-> 0]
Num(n) == Fin(n * Scale)
\* The decimal a/b for b a power of ten up to Scale, e.g. Dec(8, 10) is 0.8.
Dec(a, b) == Fin(a * (Scale \div b))

IsNaN(x) == x.k = "nan"
IsFinite(x) == x.k = "fin"

\* x < y, x <= y and x >= y on numbers (false whenever an operand is NaN).
Lt(x, y) ==
  /\ ~IsNaN(x) /\ ~IsNaN(y)
  /\ \/ x.k = "ninf" /\ y.k # "ninf"
     \/ x.k = "fin" /\ y.k = "pinf"
     \/ x.k = "fin" /\ y.k = "fin" /\ x.v < y.v
Le(x, y) == ~IsNaN(x) /\ ~IsNaN(y) /\ (Lt(x, y) \/ x = y)
Ge(x, y) == Le(y, x)
Gt(x, y) == Lt(y, x)

\* x + y (Infinity - Infinity is NaN).
Add(x, y) ==
  IF IsNaN(x) \/ IsNaN(y) THEN NaN
  ELSE IF x.k = "fin" /\ y.k = "fin" THEN Fin(x.v + y.v)
  ELSE IF x.k = "fin" THEN y
  ELSE IF y.k = "fin" THEN x
  ELSE IF x.k = y.k THEN x ELSE NaN

\* x * n for an integer n > 0.
Times(x, n) == IF x.k = "fin" THEN Fin(x.v * n) ELSE x

\* Math.max and Math.min of two numbers (NaN if either is NaN).
MathMax(x, y) == IF IsNaN(x) \/ IsNaN(y) THEN NaN ELSE IF Lt(x, y) THEN y ELSE x
MathMin(x, y) == IF IsNaN(x) \/ IsNaN(y) THEN NaN ELSE IF Lt(y, x) THEN y ELSE x

\* Math.round: the integer nearest to x, halves rounded up.
MathRound(x) == IF x.k = "fin" THEN Fin(((x.v + Scale \div 2) \div Scale) * Scale) ELSE x

\* The five digits of the fraction f / Scale, leading zeros kept.
FracString(f) == [i \in 1..5 |-> DigitChar((f \div Pow10(5 - i)) % 10)]

RECURSIVE StripZeros(_)
StripZeros(s) == IF Len(s) > 0 /\ s[Len(s)] = "0" THEN StripZeros(SubSeq(s, 1, Len(s) - 1)) ELSE s

\* Number.prototype.toString (radix 10) for the magnitudes of the model.
NumToString(x) ==
  IF x.k = "nan" THEN <<"N","a","N">>
  ELSE IF x.k = "pinf" THEN <<"I","n","f","i","n","i","t","y">>
  ELSE IF x.k = "ninf" THEN <<"-","I","n","f","i","n","i","t","y">>
  ELSE LET m == IF x.v < 0 THEN -x.v ELSE x.v
           frac == StripZeros(FracString(m % Scale))
       IN (IF x.v < 0 THEN <<"-">> ELSE <<>>) \o NatToString(m \div Scale)
          \o (IF Len(frac) > 0 THEN <<".">> \o frac ELSE <<>>)

\* Number.prototype.toFixed(d) for d in 0..2: the nearest multiple of 10^-d,
\* ties to the larger magnitude, printed with exactly d decimals.
toFixed(x, d) ==
  IF x.k # "fin" THEN NumToString(x)
  ELSE LET m == IF x.v < 0 THEN -x.v ELSE x.v
           unit == Pow10(5 - d)
           n == (m + unit \div 2) \div unit
           body == NatToString(n \div Pow10(d))
                   \o (IF d > 0 THEN <<".">> \o [i \in 1..d |-> DigitChar((n \div Pow10(d - i)) % 10)] ELSE <<>>)
       IN (IF x.v < 0 /\ n > 0 THEN <<"-">> ELSE <<>>) \o body

RECURSIVE TrimStart(_)
TrimStart(s) == IF Len(s) > 0 /\ s[1] = " " THEN TrimStart(Tail(s)) ELSE s

\* parseFloat of a string: optional blanks and sign, then Infinity or a decimal
\* literal; what follows the literal is ignored; NaN when there is no literal.
\* (Exponents and digits past the fifth decimal are outside the inputs of the model.)
ParseFloatString(s) ==
  LET t == TrimStart(s)
      signed == Len(t) > 0 /\ t[1] \in {"-", "+"}
      neg == Len(t) > 0 /\ t[1] = "-"
      u == IF signed THEN Tail(t) ELSE t
      ip == DigitRun(u)
      rest == Drop(u, ip)
      fp == IF Len(rest) > 0 /\ rest[1] = "." THEN DigitRun(Tail(rest)) ELSE 0
      fdigits == SubSeq(rest, 2, 1 + (IF fp > 5 THEN 5 ELSE fp))
      mag == DigitsValue(SubSeq(u, 1, ip)) * Scale + DigitsValue(fdigits) * Pow10(5 - Len(fdigits))
  IN IF StartsWith(u, <<"I","n","f","i","n","i","t","y">>) THEN (IF neg THEN NInf ELSE PInf)
     ELSE IF ip = 0 /\ fp = 0 THEN NaN
     ELSE Fin(IF neg THEN -mag ELSE mag)

(***************************************************************************)
(* Row values.  A row maps the column names it has to values; a value is a *)
(* string, a number, a boolean or null, and a column the row lacks reads   *)
(* as undefined.                                                           *)
(***************************************************************************)
Str(s) == [t |-> "str", s |-> s]
NumV(x) == [t |-> "num", n |-> x]
Bool(b) == [t |-> "bool", b |-> b]
Null == [t |-> "null"]
Undefined == [t |-> "undefined"]

\* row.col, row['col'].
Get(row, col) == IF col \in DOMAIN row THEN row[col] ELSE Undefined

\* ToBoolean.
Truthy(v) ==
  CASE v.t = "str" -> Len(v.s) > 0
    [] v.t = "num" -> ~IsNaN(v.n) /\ v.n # Fin(0)
    [] v.t = "bool" -> v.b
    [] OTHER -> FALSE

\* a || b.
Or(a, b) == IF Truthy(a) THEN a ELSE b

\* The first truthy value among the row's columns cols, else the last one.
RECURSIVE OrChain(_, _)
OrChain(row, cols) ==
  IF Len(cols) = 1 THEN Get(row, cols[1])
  ELSE Or(Get(row, cols[1]), OrChain(row, Tail(cols)))

\* v.toString() of a value that is not null or undefined.
toStr(v) ==
  CASE v.t = "str" -> v.s
    [] v.t = "num" -> NumToString(v.n)
    [] v.t = "bool" -> IF v.b THEN <<"t","r","u","e">> ELSE <<"f","a","l","s","e">>
    [] v.t = "null" -> <<"n","u","l","l">>
    [] OTHER -> <<"u","n","d","e","f","i","n","e","d">>

\* parseFloat(v): of the string toStr(v).
parseFloat(v) ==
  CASE v.t = "str" -> ParseFloatString(v.s)
    [] v.t = "num" -> v.n
    [] OTHER -> NaN

\* x || y on numbers: 0 and NaN are falsy.
NumOr(x, y) == IF Truthy(NumV(x)) THEN x ELSE y

(***************************************************************************)
(* createHash and getDeterministicValue.  A 32-bit integer is the pair of  *)
(* its 16-bit halves [hi, lo] (two's complement), so that the wrap-around  *)
(* of hash << 5 and Math.abs(-2^31) = 2^31 are computed exactly.           *)
(***************************************************************************)
Half == 65536

\* One round of the loop: hash = ((hash << 5) - hash) + char; hash = hash & hash.
HashStep(h, c) ==
  LET lo == 31 * h.lo + c
      hi == 31 * h.hi + (lo \div Half)
  IN [hi |-> hi % Half, lo |-> lo % Half]

\* Faulty variant of Abs32: the sign of the 32-bit integer is kept.
Abs32Omitted(h) == h

\* Math.abs of the 32-bit integer h, as an unsigned pair (2^31 for -2^31).
Abs32(h) ==
  IF h.hi < Half \div 2 THEN h
  ELSE [hi |-> (Half - 1 - h.hi + (IF h.lo = 0 THEN 1 ELSE 0)) % Half, lo |-> (Half - h.lo) % Half]

\* The loop of createHash: loop[from, to, hash] is the value of the variable
\* hash after the rounds for str[from] .. str[to], entered with the value hash.
\* The rounds are taken half by half to keep the evaluation shallow.
createHash(str) ==
  LET loop[from \in 1..Len(str) + 1, to \in 0..Len(str), hash \in [hi : 0..Half - 1, lo : 0..Half - 1]] ==
        IF from > to THEN hash
        ELSE IF from = to THEN HashStep(hash, charCode(str[from]))
        ELSE loop[(from + to) \div 2 + 1, to, loop[from, (from + to) \div 2, hash]]
  IN Abs32(loop[1, Len(str), [hi |-> 0, lo |-> 0]])

\* hash % m for m <= 10000.
HashMod(h, m) == ((h.hi % m) * (Half % m) + h.lo) % m

\* min + ((hash % 10000) / 10000) * (max - min), for min and max in tenths.
getDeterministicValue(planetName, property, min, max) ==
  LET hash == createHash(planetName \o property)
  IN Fin(min.v + HashMod(hash, 10000) * ((max.v - min.v) \div 10000))

(***************************************************************************)
(* The per-row classifier: the body of selectedData.map in                 *)
(* generatePredictions.                                                    *)
(***************************************************************************)

\* Faulty variant of PlanetName: the alias planet_name is not consulted.
PlanetNameWithoutAlias(row, startIndex, index) ==
  LET v == OrChain(row, <<"pl_name", "kepler_name", "kepoi_name", "Planet Name", "name", "object_name">>)
  IN IF Truthy(v) THEN v ELSE Str(<<"P","l","a","n","e","t","-">> \o NatToString(startIndex + index + 1))

\* Line 612: the first truthy name column, else `Planet-${startIndex + index + 1}`.
\* The name is the column's value as it is: a string, or a number or boolean.
PlanetName(row, startIndex, index) ==
  LET v == OrChain(row, <<"pl_name", "kepler_name", "kepoi_name", "Planet Name",
                          "name", "planet_name", "object_name">>)
  IN IF Truthy(v) THEN v ELSE Str(<<"P","l","a","n","e","t","-">> \o NatToString(startIndex + index + 1))

\* What the detection chain leaves in (classification, confidence, dataSource).
Outcome(classification, confidence, dataSource) ==
  [classification |-> classification, confidence |-> confidence, dataSource |-> dataSource]

\* Lines 620-621: row.koi_disposition || row.koi_pdisposition.
IsKoi(row) == Truthy(OrChain(row, <<"koi_disposition", "koi_pdisposition">>))

\* Faulty variant of KoiRules: a koi_score outside [0, 1] is rejected (taken as 0).
KoiRulesScoreValidated(row) ==
  LET disposition == toUpperCase(toStr(OrChain(row, <<"koi_disposition", "koi_pdisposition">>)))
      parsed == NumOr(parseFloat(Get(row, "koi_score")), Num(0))
      koiScore == IF Ge(parsed, Num(0)) /\ Le(parsed, Num(1)) THEN parsed ELSE Num(0)
  IN IF disposition = <<"C","O","N","F","I","R","M","E","D">>
       THEN Outcome("Confirmed Exoplanet", Add(Num(85), Times(koiScore, 10)), "NASA KOI")
     ELSE IF disposition = <<"C","A","N","D","I","D","A","T","E">>
       THEN Outcome("Candidate Exoplanet", Add(Num(65), Times(koiScore, 15)), "NASA KOI")
     ELSE IF includes(disposition, <<"F","A","L","S","E">>)
       THEN Outcome("False Positive", Add(Num(15), Times(koiScore, 10)), "NASA KOI")
     ELSE Outcome("", Num(0), "NASA KOI")

\* Lines 622-635.
KoiRules(row) ==
  LET disposition == toUpperCase(toStr(OrChain(row, <<"koi_disposition", "koi_pdisposition">>)))
      koiScore == NumOr(parseFloat(Get(row, "koi_score")), Num(0))
  IN IF disposition = <<"C","O","N","F","I","R","M","E","D">>
       THEN Outcome("Confirmed Exoplanet", Add(Num(85), Times(koiScore, 10)), "NASA KOI")
     ELSE IF disposition = <<"C","A","N","D","I","D","A","T","E">>
       THEN Outcome("Candidate Exoplanet", Add(Num(65), Times(koiScore, 15)), "NASA KOI")
     ELSE IF includes(disposition, <<"F","A","L","S","E">>)
       THEN Outcome("False Positive", Add(Num(15), Times(koiScore, 10)), "NASA KOI")
     ELSE Outcome("", Num(0), "NASA KOI")

\* Line 639.
IsArchive(row) == Truthy(OrChain(row, <<"pl_discmethod", "discoverymethod", "disc_method">>))

\* Faulty variant of ArchiveRules: the discovery method is looked at before the status.
ArchiveRulesMethodFirst(row) ==
  LET disposition == toUpperCase(toStr(Or(OrChain(row, <<"disposition", "pl_status">>), Str(<<>>))))
      method == toLowerCase(toStr(Or(OrChain(row, <<"pl_discmethod", "discoverymethod", "disc_method">>), Str(<<>>))))
  IN IF includes(method, <<"t","r","a","n","s","i","t">>) \/ includes(method, <<"r","a","d","i","a","l">>)
       THEN Outcome("Confirmed Exoplanet", Num(80), "NASA Archive")
     ELSE IF includes(method, <<"i","m","a","g","i","n","g">>) \/ includes(method, <<"a","s","t","r","o","m","e","t","r","y">>)
       THEN Outcome("Confirmed Exoplanet", Num(75), "NASA Archive")
     ELSE IF disposition = <<"C","O","N","F","I","R","M","E","D">> \/ disposition = <<"P","U","B","L","I","S","H","E","D">>
       THEN Outcome("Confirmed Exoplanet", Num(90), "NASA Archive")
     ELSE IF disposition = <<"C","A","N","D","I","D","A","T","E">>
       THEN Outcome("Candidate Exoplanet", Num(70), "NASA Archive")
     ELSE Outcome("Candidate Exoplanet", Num(65), "NASA Archive")

\* Lines 640-661.
ArchiveRules(row) ==
  LET disposition == toUpperCase(toStr(Or(OrChain(row, <<"disposition", "pl_status">>), Str(<<>>))))
      method == toLowerCase(toStr(Or(OrChain(row, <<"pl_discmethod", "discoverymethod", "disc_method">>), Str(<<>>))))
  IN IF disposition = <<"C","O","N","F","I","R","M","E","D">> \/ disposition = <<"P","U","B","L","I","S","H","E","D">>
       THEN Outcome("Confirmed Exoplanet", Num(90), "NASA Archive")
     ELSE IF disposition = <<"C","A","N","D","I","D","A","T","E">>
       THEN Outcome("Candidate Exoplanet", Num(70), "NASA Archive")
     ELSE IF includes(method, <<"t","r","a","n","s","i","t">>) \/ includes(method, <<"r","a","d","i","a","l">>)
       THEN Outcome("Confirmed Exoplanet", Num(80), "NASA Archive")
     ELSE IF includes(method, <<"i","m","a","g","i","n","g">>) \/ includes(method, <<"a","s","t","r","o","m","e","t","r","y">>)
       THEN Outcome("Confirmed Exoplanet", Num(75), "NASA Archive")
     ELSE Outcome("Candidate Exoplanet", Num(65), "NASA Archive")

\* Line 665, for a planetName that is a string.
IsTess(row, planetName) ==
  \/ Truthy(OrChain(row, <<"tic_id", "toi_id">>))
  \/ includes(toLowerCase(planetName.s), <<"t","o","i">>)

\* Lines 666-681.
TessRules(row) ==
  LET tessDisposition == toUpperCase(toStr(Or(OrChain(row, <<"tess_disposition", "disposition">>), Str(<<>>))))
  IN IF tessDisposition = <<"C","O","N","F","I","R","M","E","D">> \/ tessDisposition = <<"P","C">> \/ tessDisposition = <<"C","P">>
       THEN Outcome("Confirmed Exoplanet", Num(85), "TESS")
     ELSE IF tessDisposition = <<"C","A","N","D","I","D","A","T","E">> \/ tessDisposition = <<"K","P">>
       THEN Outcome("Candidate Exoplanet", Num(70), "TESS")
     ELSE IF includes(tessDisposition, <<"F","A","L","S","E">>) \/ tessDisposition = <<"F","P">>
       THEN Outcome("False Positive", Num(20), "TESS")
     ELSE Outcome("Candidate Exoplanet", Num(60), "TESS")

\* Line 685, for a planetName that is a string.
IsHarps(row, planetName) ==
  \/ Truthy(Get(row, "harps_id"))
  \/ includes(toLowerCase(planetName.s), <<"h","d"," ">>)
  \/ includes(toLowerCase(planetName.s), <<"g","j"," ">>)

\* Lines 686-695: confirmed === true || confirmed === 'true' || confirmed === '1'.
HarpsRules(row) ==
  LET confirmed == OrChain(row, <<"confirmed", "is_confirmed">>)
  IN IF confirmed = Bool(TRUE) \/ confirmed = Str(<<"t","r","u","e">>) \/ confirmed = Str(<<"1">>)
       THEN Outcome("Confirmed Exoplanet", Num(88), "ESO/HARPS")
     ELSE Outcome("Candidate Exoplanet", Num(72), "ESO/HARPS")

\* Lines 699-703, for a planetName that is a string.
IsGroundSurvey(planetName) ==
  LET lower == toLowerCase(planetName.s)
  IN \/ includes(lower, <<"h","a","t","-">>)
     \/ includes(lower, <<"w","a","s","p","-">>)
     \/ includes(lower, <<"t","r","e","s","-">>)
     \/ includes(lower, <<"g","a","i","a">>)
     \/ includes(lower, <<"s","p","i","t","z","e","r">>)

\* Lines 704-706.
GroundSurveyRules == Outcome("Confirmed Exoplanet", Num(82), "Ground Survey")

\* Line 710.
IsGeneric(row) == Truthy(OrChain(row, <<"status", "disposition", "classification">>))

\* Faulty variant of GenericRules: FALSE and REJECT are looked for first.
GenericRulesFalseFirst(row) ==
  LET status == toUpperCase(toStr(Or(OrChain(row, <<"status", "disposition", "classification">>), Str(<<>>))))
  IN IF includes(status, <<"F","A","L","S","E">>) \/ includes(status, <<"R","E","J","E","C","T">>)
       THEN Outcome("False Positive", Num(25), "Generic")
     ELSE IF includes(status, <<"C","O","N","F","I","R","M">>) \/ includes(status, <<"P","U","B","L","I","S","H">>) \/ status = <<"T","R","U","E">>
       THEN Outcome("Confirmed Exoplanet", Num(85), "Generic")
     ELSE IF includes(status, <<"C","A","N","D","I","D">>) \/ includes(status, <<"P","O","S","S","I","B","L","E">>)
       THEN Outcome("Candidate Exoplanet", Num(65), "Generic")
     ELSE Outcome("", Num(0), "Generic")

\* Lines 711-723.
GenericRules(row) ==
  LET status == toUpperCase(toStr(Or(OrChain(row, <<"status", "disposition", "classification">>), Str(<<>>))))
  IN IF includes(status, <<"C","O","N","F","I","R","M">>) \/ includes(status, <<"P","U","B","L","I","S","H">>) \/ status = <<"T","R","U","E">>
       THEN Outcome("Confirmed Exoplanet", Num(85), "Generic")
     ELSE IF includes(status, <<"C","A","N","D","I","D">>) \/ includes(status, <<"P","O","S","S","I","B","L","E">>)
       THEN Outcome("Candidate Exoplanet", Num(65), "Generic")
     ELSE IF includes(status, <<"F","A","L","S","E">>) \/ includes(status, <<"R","E","J","E","C","T">>)
       THEN Outcome("False Positive", Num(25), "Generic")
     ELSE Outcome("", Num(0), "Generic")

\* planetName.toLowerCase() at line 665 is a TypeError when the name is not a
\* string; it is reached when neither of the first two families matched and
\* row.tic_id || row.toi_id is falsy.
Throws(row, startIndex, index) ==
  /\ PlanetName(row, startIndex, index).t # "str"
  /\ ~IsKoi(row)
  /\ ~IsArchive(row)
  /\ ~Truthy(OrChain(row, <<"tic_id", "toi_id">>))

\* Faulty variant of DetectChain: the TESS identifiers are tested before the
\* KOI disposition, and the generic status before the ground-survey names.
DetectChainReordered(row, planetName) ==
  IF Truthy(OrChain(row, <<"tic_id", "toi_id">>)) THEN TessRules(row)
  ELSE IF IsKoi(row) THEN KoiRules(row)
  ELSE IF IsArchive(row) THEN ArchiveRules(row)
  ELSE IF IsTess(row, planetName) THEN TessRules(row)
  ELSE IF IsHarps(row, planetName) THEN HarpsRules(row)
  ELSE IF IsGeneric(row) THEN GenericRules(row)
  ELSE IF IsGroundSurvey(planetName) THEN GroundSurveyRules
  ELSE Outcome("", Num(0), "Unknown")

\* Lines 615-724: the if / else-if chain over the six families.
DetectChain(row, planetName) ==
  IF IsKoi(row) THEN KoiRules(row)
  ELSE IF IsArchive(row) THEN ArchiveRules(row)
  ELSE IF IsTess(row, planetName) THEN TessRules(row)
  ELSE IF IsHarps(row, planetName) THEN HarpsRules(row)
  ELSE IF IsGroundSurvey(planetName) THEN GroundSurveyRules
  ELSE IF IsGeneric(row) THEN GenericRules(row)
  ELSE Outcome("", Num(0), "Unknown")

\* Faulty variant of ExtractField: a missing value becomes 0, nothing is synthesized.
ExtractFieldWithoutSynthesis(row, aliases, name, property, min, max) ==
  NumOr(parseFloat(OrChain(row, aliases)), Num(0))

\* Lines 727-750: parseFloat(row.a1 || row.a2 || ...) || getDeterministicValue(...).
ExtractField(row, aliases, name, property, min, max) ==
  NumOr(parseFloat(OrChain(row, aliases)), getDeterministicValue(name, property, min, max))

RadiusAliases == <<"koi_prad", "pl_rade", "pl_radj", "radius", "planet_radius", "r_planet", "Radius", "Planet Radius">>
MassAliases == <<"pl_bmasse", "pl_bmassj", "mass", "planet_mass", "m_planet", "Mass", "Planet Mass">>
PeriodAliases == <<"koi_period", "pl_orbper", "period", "orbital_period", "p_orbit", "Period", "Orbital Period">>
\* Faulty variant of StarTempAliases: star_temperature is read as well.
StarTempAliasesWithStarTemperature ==
  <<"koi_steff", "st_teff", "teff", "star_temp", "stellar_temp", "host_temp", "Star Temperature",
    "Stellar Temperature", "star_temperature">>
StarTempAliases == <<"koi_steff", "st_teff", "teff", "star_temp", "stellar_temp", "host_temp", "Star Temperature", "Stellar Temperature">>
DistanceAliases == <<"sy_dist", "st_dist", "distance", "dist", "Distance", "System Distance">>

\* The five extracted parameters of a row whose name prints as name.
Extract(row, name) ==
  [radius |-> ExtractField(row, RadiusAliases, name, <<"r","a","d","i","u","s">>, Dec(3, 10), Num(3)),
   mass |-> ExtractField(row, MassAliases, name, <<"m","a","s","s">>, Dec(1, 10), Num(10)),
   period |-> ExtractField(row, PeriodAliases, name, <<"p","e","r","i","o","d">>, Num(10), Num(2000)),
   starTemp |-> ExtractField(row, StarTempAliases, name, <<"s","t","a","r","T","e","m","p">>, Num(3000), Num(8000)),
   distance |-> ExtractField(row, DistanceAliases, name, <<"d","i","s","t","a","n","c","e">>, Num(1), Num(5000))]

Between(x, lo, hi) == Ge(x, lo) /\ Le(x, hi)

\* Lines 760-790: the four bucketed factors, summed.
RadiusScore(radius) ==
  IF Between(radius, Dec(8, 10), Dec(15, 10)) THEN 30
  ELSE IF Between(radius, Dec(5, 10), Num(2)) THEN 20
  ELSE IF Between(radius, Dec(3, 10), Num(3)) THEN 10 ELSE 0
MassScore(mass) ==
  IF Between(mass, Dec(5, 10), Num(2)) THEN 25
  ELSE IF Between(mass, Dec(3, 10), Num(5)) THEN 15
  ELSE IF Between(mass, Dec(1, 10), Num(10)) THEN 8 ELSE 0
PeriodScore(period) ==
  IF Between(period, Num(200), Num(500)) THEN 25
  ELSE IF Between(period, Num(100), Num(800)) THEN 15
  ELSE IF Between(period, Num(10), Num(2000)) THEN 8 ELSE 0
StarScore(starTemp) ==
  IF Between(starTemp, Num(5000), Num(6500)) THEN 20
  ELSE IF Between(starTemp, Num(4500), Num(7000)) THEN 12
  ELSE IF Between(starTemp, Num(3000), Num(8000)) THEN 5 ELSE 0

\* Lines 793-794: (number of the five values that are > 0) / 5 * 20.
DetectionScore(p) ==
  4 * Cardinality({f \in {"radius", "mass", "period", "starTemp", "distance"} : Gt(p[f], Num(0))})

\* A match of /<prefix>\d+/i or, with letter, of /<prefix>\d+[a-z]/i anywhere in s.
MatchDigits(s, prefix, letter) ==
  LET lower == toLowerCase(s)
  IN \E i \in 0..(Len(lower) - Len(prefix)) :
       /\ SubSeq(lower, i + 1, i + Len(prefix)) = prefix
       /\ LET rest == Drop(lower, i + Len(prefix))
              run == DigitRun(rest)
          IN run >= 1 /\ (letter => Len(rest) > run /\ IsLetter(rest[run + 1]))

\* A match of /trappist-1[a-z]/i anywhere in s.
MatchTrappist(s) ==
  \E i \in 1..Len(s) : /\ StartsWith(Drop(toLowerCase(s), i - 1), <<"t","r","a","p","p","i","s","t","-","1">>)
                       /\ Len(s) >= i + 10
                       /\ IsLetter(s[i + 10])

\* Faulty variant of NameBoost: the boosts of all the patterns that match are added up.
NameBoostSummed(name) ==
  (IF MatchDigits(name, <<"k","e","p","l","e","r","-">>, TRUE) THEN 15 ELSE 0)
  + (IF MatchDigits(name, <<"k","2","-">>, TRUE) THEN 12 ELSE 0)
  + (IF MatchDigits(name, <<"t","o","i","-">>, FALSE) THEN 8 ELSE 0)
  + (IF MatchDigits(name, <<"h","a","t","-","p","-">>, FALSE) THEN 15 ELSE 0)
  + (IF MatchDigits(name, <<"w","a","s","p","-">>, FALSE) THEN 15 ELSE 0)
  + (IF MatchDigits(name, <<"h","d"," ">>, FALSE) THEN 10 ELSE 0)
  + (IF MatchDigits(name, <<"g","j"," ">>, FALSE) THEN 8 ELSE 0)
  + (IF MatchTrappist(name) THEN 18 ELSE 0)
  + (IF includes(toLowerCase(name), <<"p","r","o","x","i","m","a">>) THEN 20 ELSE 0)

\* Lines 797-815: the boost of the first pattern that matches, else 0.
NameBoost(name) ==
  IF MatchDigits(name, <<"k","e","p","l","e","r","-">>, TRUE) THEN 15
  ELSE IF MatchDigits(name, <<"k","2","-">>, TRUE) THEN 12
  ELSE IF MatchDigits(name, <<"t","o","i","-">>, FALSE) THEN 8
  ELSE IF MatchDigits(name, <<"h","a","t","-","p","-">>, FALSE) THEN 15
  ELSE IF MatchDigits(name, <<"w","a","s","p","-">>, FALSE) THEN 15
  ELSE IF MatchDigits(name, <<"h","d"," ">>, FALSE) THEN 10
  ELSE IF MatchDigits(name, <<"g","j"," ">>, FALSE) THEN 8
  ELSE IF MatchTrappist(name) THEN 18
  ELSE IF includes(toLowerCase(name), <<"p","r","o","x","i","m","a">>) THEN 20
  ELSE 0

\* Faulty variant of DeterministicAdjustment: the adjustment is taken from
\* mutable state of the component instead of the hash of the row.
StateDependentAdjustment(name, p) == Fin((processingCount % 10) * Scale - 5 * Scale)

\* Lines 820-821: ((createHash(name + radius + mass) % 1000) / 100) - 5.
DeterministicAdjustment(name, p) ==
  LET planetHash == createHash(name \o NumToString(p.radius) \o NumToString(p.mass))
  IN Fin(HashMod(planetHash, 1000) * (Scale \div 100) - 5 * Scale)

\* Lines 824-830.
Threshold(confidence) ==
  IF Ge(confidence, Num(80)) THEN "Confirmed Exoplanet"
  ELSE IF Ge(confidence, Num(50)) THEN "Candidate Exoplanet"
  ELSE "False Positive"

\* Faulty variant of HabitabilityOutcome: no override for well-known planets.
HabitabilityOutcomeWithoutOverride(nameBoost, scoreAndAdjustment) ==
  Outcome(Threshold(Add(Num(nameBoost), scoreAndAdjustment)), Add(Num(nameBoost), scoreAndAdjustment),
          "Habitability Analysis")

\* Lines 817-836: the score with the name boost and the adjustment, the
\* thresholds, and the override for well-known planets.
HabitabilityOutcome(nameBoost, scoreAndAdjustment) ==
  LET confidence == Add(Num(nameBoost), scoreAndAdjustment)
  IN IF nameBoost >= 15
       THEN Outcome("Confirmed Exoplanet", MathMax(confidence, Num(85)), "Habitability Analysis")
       ELSE Outcome(Threshold(confidence), confidence, "Habitability Analysis")

\* Lines 754-836: the habitability analysis.
Habitability(name, p) ==
  HabitabilityOutcome(
    NameBoost(name),
    Add(Num(RadiusScore(p.radius) + MassScore(p.mass) + PeriodScore(p.period) + StarScore(p.starTemp)
            + DetectionScore(p)),
        DeterministicAdjustment(name, p)))

\* Faulty variant of UsesFallback: only when no family was detected.
UsesFallbackWhenUndetected(detected) == detected.dataSource = "Unknown"

\* Line 753: if (!classification).
UsesFallback(detected) == detected.classification = ""

\* Faulty variant of Clamp: the confidence is left as it is.
ClampOmitted(confidence) == confidence

\* Line 839: Math.max(0, Math.min(100, confidence)).
Clamp(confidence) == MathMax(Num(0), MathMin(Num(100), confidence))

Label(x, lo1, hi1, lo2, hi2) ==
  IF Between(x, lo1, hi1) THEN "Excellent" ELSE IF Between(x, lo2, hi2) THEN "Good" ELSE "Poor"

\* Faulty variant of HabitabilityFactors: every factor that scored in a
\* lower tier is Good, only a factor that scored 0 is Poor.
HabitabilityFactorsByScore(p) ==
  [size |-> Label(p.radius, Dec(8, 10), Dec(15, 10), Dec(3, 10), Num(3)),
   mass |-> Label(p.mass, Dec(5, 10), Num(2), Dec(1, 10), Num(10)),
   orbit |-> Label(p.period, Num(200), Num(500), Num(10), Num(2000)),
   star |-> Label(p.starTemp, Num(5000), Num(6500), Num(3000), Num(8000))]

\* Lines 855-860.
HabitabilityFactors(p) ==
  [size |-> Label(p.radius, Dec(8, 10), Dec(15, 10), Dec(5, 10), Num(2)),
   mass |-> Label(p.mass, Dec(5, 10), Num(2), Dec(3, 10), Num(5)),
   orbit |-> Label(p.period, Num(200), Num(500), Num(100), Num(800)),
   star |-> Label(p.starTemp, Num(5000), Num(6500), Num(4500), Num(7000))]

\* Lines 841-861: the result object.
ResultRecord(id, planetName, final, p) ==
  [id |-> id,
   planetName |-> planetName,
   confidence |-> MathRound(Clamp(final.confidence)),
   originalIndex |-> id,
   classification |-> final.classification,
   dataSource |-> final.dataSource,
   parameters |-> [radius |-> toFixed(p.radius, 2),
                   mass |-> toFixed(p.mass, 2),
                   period |-> toFixed(p.period, 1),
                   starTemp |-> toFixed(p.starTemp, 0),
                   distance |-> toFixed(p.distance, 1)],
   habitabilityFactors |-> HabitabilityFactors(p)]

\* Lines 753-837: the habitability analysis replaces what the chain left when
\* the chain left no classification.
Finalize(id, planetName, detected, p) ==
  ResultRecord(id, planetName,
               IF UsesFallback(detected) THEN Habitability(toStr(planetName), p) ELSE detected, p)

\* Lines 615-750: the detection chain, then the extraction of the parameters.
Classify(row, id, planetName) ==
  Finalize(id, planetName, DetectChain(row, planetName), Extract(row, toStr(planetName)))

\* Lines 610-861: the result of one row that does not throw.
ClassifyRow(row, startIndex, index) ==
  Classify(row, startIndex + index, PlanetName(row, startIndex, index))

(***************************************************************************)
(* The rows of the model: rows of every schema family, the scenario rows   *)
(* of the classification guide, and the edge cases (scores outside [0,1],  *)
(* unmatched dispositions, rows without a name column, numeric names).     *)
(* Three rows occur twice, next to each other.                             *)
(***************************************************************************)
Catalogue ==
  << \* 1: guide case 1, NASA KOI
     ("koi_disposition" :> Str(<<"C","O","N","F","I","R","M","E","D">>)) @@ ("koi_score" :> NumV(Num(1)))
       @@ ("kepoi_name" :> Str(<<"K","0","0","7","5","7",".","0","1">>)) @@ ("kepler_name" :> Str(<<"K","e","p","l","e","r","-","2","2","9"," ","c">>)),
     \* 2: a KOI disposition and a TESS identifier
     ("kepoi_name" :> Str(<<"K","0","0","0","8","2",".","0","1">>)) @@ ("koi_disposition" :> Str(<<"C","O","N","F","I","R","M","E","D">>))
       @@ ("koi_score" :> Str(<<"0",".","5">>)) @@ ("toi_id" :> Str(<<"7","1","5",".","0","1">>)),
     \* 3: koi_score above 1
     ("kepoi_name" :> Str(<<"K","0","0","0","0","3",".","0","1">>)) @@ ("koi_pdisposition" :> Str(<<"c","a","n","d","i","d","a","t","e">>))
       @@ ("koi_score" :> NumV(Num(5))),
     \* 4: koi_score below 0
     ("kepoi_name" :> Str(<<"K","0","0","0","0","4",".","0","1">>)) @@ ("koi_disposition" :> Str(<<"F","A","L","S","E"," ","P","O","S","I","T","I","V","E">>))
       @@ ("koi_score" :> Str(<<"-","3">>)),
     \* 5: a KOI disposition that no KOI rule matches
     ("kepoi_name" :> Str(<<"K","0","0","0","0","5",".","0","1">>)) @@ ("koi_disposition" :> Str(<<"N","O","T"," ","D","I","S","P","O","S","I","T","I","O","N","E","D">>)),
     \* 6: NASA Archive row of a famous planet
     ("pl_name" :> Str(<<"T","R","A","P","P","I","S","T","-","1","e">>)) @@ ("discoverymethod" :> Str(<<"T","r","a","n","s","i","t">>)),
     \* 7, 8: guide case 2, TESS, without a name column, twice
     ("toi_id" :> Str(<<"7","1","5",".","0","1">>)) @@ ("tess_disposition" :> Str(<<"P","C">>))
       @@ ("pl_rade" :> NumV(Dec(155, 100))) @@ ("pl_orbper" :> NumV(Dec(1928, 100))),
     ("toi_id" :> Str(<<"7","1","5",".","0","1">>)) @@ ("tess_disposition" :> Str(<<"P","C">>))
       @@ ("pl_rade" :> NumV(Dec(155, 100))) @@ ("pl_orbper" :> NumV(Dec(1928, 100))),
     \* 9: ESO/HARPS
     ("name" :> Str(<<"H","D"," ","2","0","9","4","5","8"," ","b">>)) @@ ("confirmed" :> Bool(TRUE)),
     \* 10: guide case 3, a ground survey name with a status column
     ("name" :> Str(<<"W","A","S","P","-","1","2","1","b">>)) @@ ("status" :> Str(<<"C","O","N","F","I","R","M","E","D">>)) @@ ("radius" :> NumV(Dec(1865, 1000)))
       @@ ("mass" :> NumV(Dec(1183, 1000))) @@ ("period" :> NumV(Dec(127, 100))) @@ ("star_temp" :> NumV(Num(6460))),
     \* 11: generic status
     ("name" :> Str(<<"F","o","o","-","1">>)) @@ ("status" :> Str(<<"P","o","s","s","i","b","l","e"," ","p","l","a","n","e","t">>)),
     \* 12: a generic status that no generic rule matches
     ("name" :> Str(<<"O","b","j","-","7">>)) @@ ("classification" :> Str(<<"U","N","K","N","O","W","N">>)),
     \* 13, 14: guide case 4, custom research data, twice
     ("planet_name" :> Str(<<"C","u","s","t","o","m","-","P","l","a","n","e","t","-","1">>)) @@ ("radius" :> Str(<<"1",".","2">>)) @@ ("mass" :> Str(<<"1",".","1">>))
       @@ ("period" :> Str(<<"3","6","5">>)) @@ ("star_temperature" :> Str(<<"5","7","7","8">>)),
     ("planet_name" :> Str(<<"C","u","s","t","o","m","-","P","l","a","n","e","t","-","1">>)) @@ ("radius" :> Str(<<"1",".","2">>)) @@ ("mass" :> Str(<<"1",".","1">>))
       @@ ("period" :> Str(<<"3","6","5">>)) @@ ("star_temperature" :> Str(<<"5","7","7","8">>)),
     \* 15: guide case 5, incomplete data
     ("object_name" :> Str(<<"U","n","k","n","o","w","n","-","O","b","j","e","c","t">>)) @@ ("some_radius" :> NumV(Dec(5, 10))),
     \* 16, 17: no recognized column at all, twice
     ("some_radius" :> NumV(Dec(5, 10))),
     ("some_radius" :> NumV(Dec(5, 10))),
     \* 18: a famous name with implausible parameters
     ("name" :> Str(<<"T","R","A","P","P","I","S","T","-","1","e">>)) @@ ("radius" :> Str(<<"5","0">>)) @@ ("mass" :> Str(<<"5","0","0","0">>))
       @@ ("period" :> Str(<<"1">>)) @@ ("star_temp" :> Str(<<"1","0","0">>)),
     \* 19: Proxima
     ("name" :> Str(<<"P","r","o","x","i","m","a"," ","C","e","n"," ","b">>)),
     \* 20: implausible parameters and no famous name
     ("name" :> Str(<<"R","o","c","k">>)) @@ ("radius" :> Str(<<"5","0">>)) @@ ("mass" :> Str(<<"5","0","0","0">>))
       @@ ("period" :> Str(<<"1">>)) @@ ("star_temp" :> Str(<<"1","0","0">>)) @@ ("distance" :> Str(<<"-","1">>)),
     \* 21: an infinite koi_score
     ("kepoi_name" :> Str(<<"K","0","0","0","0","6",".","0","1">>)) @@ ("koi_disposition" :> Str(<<"C","O","N","F","I","R","M","E","D">>))
       @@ ("koi_score" :> Str(<<"I","n","f","i","n","i","t","y">>)),
     \* 22: a numeric name on a KOI row
     ("kepoi_name" :> NumV(Num(757))) @@ ("koi_disposition" :> Str(<<"C","A","N","D","I","D","A","T","E">>)),
     \* 23: a numeric name and no schema signal
     ("pl_name" :> NumV(Num(12345))),
     \* 24: guide case 4 with numeric cells
     ("planet_name" :> Str(<<"C","u","s","t","o","m","-","P","l","a","n","e","t","-","1">>)) @@ ("radius" :> NumV(Dec(12, 10))) @@ ("mass" :> NumV(Dec(11, 10)))
       @@ ("period" :> NumV(Num(365))) @@ ("star_temperature" :> NumV(Num(5778))),
     \* 25: a NASA disposition next to a discovery method
     ("name" :> Str(<<"C","a","n","d","-","1">>)) @@ ("disposition" :> Str(<<"F","A","L","S","E"," ","P","O","S","I","T","I","V","E">>))
       @@ ("discoverymethod" :> Str(<<"T","r","a","n","s","i","t">>)),
     \* 26: planet_name and name together
     ("planet_name" :> Str(<<"A","l","p","h","a","-","1">>)) @@ ("name" :> Str(<<"B","e","t","a","-","1">>)),
     \* 27: an unparsable radius alias before a valid one
     ("name" :> Str(<<"G","a","m","m","a","-","1">>)) @@ ("koi_prad" :> Str(<<"N","/","A">>)) @@ ("pl_rade" :> Str(<<"1",".","5">>)),
     \* 28: an infinite radius
     ("name" :> Str(<<"D","e","l","t","a","-","1">>)) @@ ("radius" :> Str(<<"I","n","f","i","n","i","t","y">>)),
     \* 29: fully populated, habitability total 79.8
     ("name" :> Str(<<"S","u","r","v","e","y","-","1">>)) @@ ("radius" :> Str(<<"1">>)) @@ ("mass" :> Str(<<"3">>))
       @@ ("period" :> Str(<<"5","0">>)) @@ ("star_temp" :> Str(<<"4","0","0","0">>)) @@ ("distance" :> Str(<<"1","0">>)),
     \* 30: radius and mass only
     ("name" :> Str(<<"E","p","s","-","1">>)) @@ ("radius" :> Str(<<"1">>)) @@ ("mass" :> Str(<<"3">>)),
     \* 31: a name with "hd " and no digits after it
     ("name" :> Str(<<"H","D"," ","D","w","a","r","f">>)),
     \* 32: a confirmed flag that is the number 1
     ("name" :> Str(<<"H","D"," ","1","8","9","7","3","3"," ","b">>)) @@ ("confirmed" :> NumV(Num(1))),
     \* 33: a confirmed flag in upper case
     ("name" :> Str(<<"G","J"," ","1","2","1","4"," ","b">>)) @@ ("is_confirmed" :> Str(<<"T","R","U","E">>)),
     \* 34-37: NASA Archive rows, by status and by method
     ("pl_name" :> Str(<<"A","r","c","-","1">>)) @@ ("discoverymethod" :> Str(<<"I","m","a","g","i","n","g">>)) @@ ("disposition" :> Str(<<"C","o","n","f","i","r","m","e","d">>)),
     ("pl_name" :> Str(<<"A","r","c","-","2">>)) @@ ("pl_discmethod" :> Str(<<"T","r","a","n","s","i","t">>)) @@ ("pl_status" :> Str(<<"c","a","n","d","i","d","a","t","e">>)),
     ("pl_name" :> Str(<<"A","r","c","-","3">>)) @@ ("disc_method" :> Str(<<"A","s","t","r","o","m","e","t","r","y">>)),
     ("pl_name" :> Str(<<"A","r","c","-","4">>)) @@ ("discoverymethod" :> Str(<<"M","i","c","r","o","l","e","n","s","i","n","g">>)),
     \* 38-40: generic status rows
     ("name" :> Str(<<"G","e","n","-","1">>)) @@ ("status" :> Str(<<"C","o","n","f","i","r","m","e","d",","," ","n","o","t"," ","a"," ","f","a","l","s","e"," ","a","l","a","r","m">>)),
     ("name" :> Str(<<"G","e","n","-","2">>)) @@ ("disposition" :> Str(<<"R","e","j","e","c","t","e","d">>)),
     ("name" :> Str(<<"G","e","n","-","3">>)) @@ ("status" :> Str(<<"C","a","n","d","i","d","a","t","e">>)) @@ ("classification" :> Str(<<"P","u","b","l","i","s","h","e","d">>)),
     \* 41-44: names that match several name patterns, on rows that reach the
     \* habitability analysis with implausible parameters
     ("kepler_name" :> Str(<<"K","2","-","1","8","b"," ","H","D"," ","1">>)) @@ ("koi_disposition" :> Str(<<"N","O","T"," ","D","I","S","P","O","S","I","T","I","O","N","E","D">>))
       @@ ("radius" :> Str(<<"5","0">>)) @@ ("mass" :> Str(<<"5","0","0","0">>)) @@ ("period" :> Str(<<"1">>))
       @@ ("star_temp" :> Str(<<"1","0","0">>)) @@ ("distance" :> Str(<<"1","0">>)),
     ("kepler_name" :> Str(<<"G","J"," ","9"," ","P","r","o","x","i","m","a">>)) @@ ("koi_disposition" :> Str(<<"N","O","T"," ","D","I","S","P","O","S","I","T","I","O","N","E","D">>))
       @@ ("radius" :> Str(<<"5","0">>)) @@ ("mass" :> Str(<<"5","0","0","0">>)) @@ ("period" :> Str(<<"1">>))
       @@ ("star_temp" :> Str(<<"1","0","0">>)) @@ ("distance" :> Str(<<"1","0">>)),
     ("kepler_name" :> Str(<<"W","A","S","P","-","1","2"," ","T","O","I","-","5">>)) @@ ("koi_disposition" :> Str(<<"N","O","T"," ","D","I","S","P","O","S","I","T","I","O","N","E","D">>))
       @@ ("radius" :> Str(<<"5","0">>)) @@ ("mass" :> Str(<<"5","0","0","0">>)) @@ ("period" :> Str(<<"1">>))
       @@ ("star_temp" :> Str(<<"1","0","0">>)) @@ ("distance" :> Str(<<"1","0">>)),
     ("kepler_name" :> Str(<<"K","e","p","l","e","r","-","2","2","b"," ","K","2","-","3","c">>)) @@ ("koi_disposition" :> Str(<<"N","O","T"," ","D","I","S","P","O","S","I","T","I","O","N","E","D">>))
       @@ ("radius" :> Str(<<"5","0">>)) @@ ("mass" :> Str(<<"5","0","0","0">>)) @@ ("period" :> Str(<<"1">>))
       @@ ("star_temp" :> Str(<<"1","0","0">>)) @@ ("distance" :> Str(<<"1","0">>)),
     \* 45: a name for which the hash of name + "radius" wraps to -2^31
     ("name" :> Str(<<"R","o","s","s","-","A","q","b","i","F","M">>))
  >>

\* An upload large enough for the presets of 10 and of 25 rows: the first 30
\* rows of the catalogue.
LargeUpload == SubSeq(Catalogue, 1, 30)

\* The uploaded datasets: every run of up to MaxRows consecutive rows of the
\* catalogue, and the large upload.
Datasets ==
  {s \in {SubSeq(Catalogue, i, j) : i \in 1..Len(Catalogue), j \in 1..Len(Catalogue)} :
      Len(s) >= 1 /\ Len(s) <= MaxRows} \cup {LargeUpload}

(***************************************************************************)
(* The handlers of PredictionInterface.                                    *)
(***************************************************************************)
\* A results state: null, or an array of results.
NoResults == [null |-> TRUE, results |-> <<>>]
Results(results) == [null |-> FALSE, results |-> results]
NoTimer == [pending |-> FALSE, selectedData |-> <<>>, startIndex |-> 0]

Min(a, b) == IF a < b THEN a ELSE b
Max(a, b) == IF a > b THEN a ELSE b

\* Array.prototype.slice(start, end) for 0 <= start.
Slice(arr, start, end) ==
  LET to == IF end < 0 THEN Max(Len(arr) + end, 0) ELSE Min(end, Len(arr))
  IN SubSeq(arr, start + 1, to)

\* Faulty variant of InsertByConfidence: the results stay in row order.
InsertLast(sorted, r) == Append(sorted, r)

\* Line 864: sort((a, b) => b.confidence - a.confidence), a stable sort.
\* r placed after the results of sorted whose confidence is not below its own.
InsertByConfidence(sorted, r) ==
  LET k == Cardinality({i \in 1..Len(sorted) : Ge(sorted[i].confidence, r.confidence)})
  IN SubSeq(sorted, 1, k) \o <<r>> \o SubSeq(sorted, k + 1, Len(sorted))

RECURSIVE SortByConfidence(_)
SortByConfidence(results) ==
  IF Len(results) <= 1 THEN results
  ELSE InsertByConfidence(SortByConfidence(SubSeq(results, 1, Len(results) - 1)), results[Len(results)])

\* Lines 610-864: the mapped and sorted results of selectedData.
PredictedResults(selectedData, startIndex) ==
  SortByConfidence([i \in 1..Len(selectedData) |-> ClassifyRow(selectedData[i], startIndex, i - 1)])

\* new MLService(): lines 16-21 (pythonServiceProcess is TRUE once a process
\* has been spawned).
NewService == [isInitialized |-> FALSE, usePythonService |-> FALSE, pythonServiceProcess |-> FALSE]

\* No method of the instance has been called; no request has been received.
NoCall == [method |-> "none"]
NoExchange == [route |-> "none"]

Init ==
  /\ data \in Datasets
  /\ predictions = NoResults
  /\ isProcessing = FALSE
  /\ selectedRange = [start |-> 0, end |-> 10]
  /\ processingCount = 10
  /\ timer = NoTimer
  /\ predictionResults = NoResults
  /\ uncaught = FALSE
  /\ consoleError = FALSE
  /\ mlRequest = <<>>
  /\ mlResponse = <<>>
  /\ service = NewService
  /\ serviceCall = NoCall
  /\ http = NoExchange

\* Lines 595-596.
StartIndex(inputData, rangeStart) == Max(0, Min(rangeStart, Len(inputData) - 1))
EndIndex(inputData, rangeStart, rangeEnd) ==
  IF rangeEnd # 0 THEN rangeEnd
  ELSE Min(StartIndex(inputData, rangeStart) + processingCount, Len(inputData))

\* Faulty variant of IsEmptySelection: an empty selection is processed like any other.
SelectionNeverEmpty(selectedData) == FALSE

\* Line 601: selectedData.length === 0.
IsEmptySelection(selectedData) == Len(selectedData) = 0

\* Lines 591-609, called by the Analyze and Reprocess buttons (lines 960, 982)
\* as generatePredictions(data, selectedRange.start, selectedRange.end); the
\* buttons are disabled while isProcessing.
GeneratePredictions ==
  /\ ~isProcessing
  /\ LET startIndex == StartIndex(data, selectedRange.start)
         endIndex == EndIndex(data, selectedRange.start, selectedRange.end)
         selectedData == Slice(data, startIndex, endIndex)
     IN /\ predictions' = NoResults
        /\ IF IsEmptySelection(selectedData)
             THEN /\ isProcessing' = FALSE
                  /\ consoleError' = TRUE
                  /\ timer' = timer
             ELSE /\ isProcessing' = TRUE
                  /\ consoleError' = FALSE
                  /\ timer' = [pending |-> TRUE, selectedData |-> selectedData, startIndex |-> startIndex]
  /\ UNCHANGED <<data, selectedRange, processingCount, predictionResults, uncaught>>
  /\ UNCHANGED mlVars

\* Lines 609-872: the timer callback.  A row that throws ends the callback
\* before any state is set.
TimerFires ==
  /\ timer.pending
  /\ timer' = NoTimer
  /\ IF \E i \in 1..Len(timer.selectedData) : Throws(timer.selectedData[i], timer.startIndex, i - 1)
       THEN /\ uncaught' = TRUE
            /\ UNCHANGED <<predictions, isProcessing, predictionResults>>
       ELSE /\ predictions' = Results(PredictedResults(timer.selectedData, timer.startIndex))
            /\ isProcessing' = FALSE
            /\ predictionResults' = predictions'
            /\ UNCHANGED uncaught
  /\ UNCHANGED <<data, selectedRange, processingCount, consoleError>>
  /\ UNCHANGED mlVars

\* Lines 565-570, the Clear Results button (shown when predictions is set).
\* showRangeSelector, which only folds the range panel, is not modelled.
ResetPredictions ==
  /\ predictions # NoResults
  /\ predictions' = NoResults
  /\ selectedRange' = [start |-> 0, end |-> 10]
  /\ processingCount' = 10
  /\ UNCHANGED <<data, isProcessing, timer, predictionResults, uncaught, consoleError>>
  /\ UNCHANGED mlVars

\* Lines 1026-1046: a quick-selection preset, enabled when the dataset holds
\* preset.start + preset.count rows.  "Random 25" starts at
\* Math.floor(Math.random() * Math.max(1, data.length - 25)).
SelectPreset ==
  /\ \E preset \in {[count |-> 10, start |-> 0], [count |-> 50, start |-> 0], [count |-> 100, start |-> 0]}
         \cup {[count |-> 25, start |-> s] : s \in 0..(Max(1, Len(data) - 25) - 1)} :
       /\ preset.start + preset.count <= Len(data)
       /\ LET end == Min(preset.start + preset.count, Len(data))
          IN /\ selectedRange' = [start |-> preset.start, end |-> end]
             /\ processingCount' = end - preset.start
  /\ UNCHANGED <<data, predictions, isProcessing, timer, predictionResults, uncaught, consoleError>>
  /\ UNCHANGED mlVars

\* Lines 1064-1068: the Start input, for a typed value 0..MaxRows.
SetStart ==
  /\ \E value \in 0..MaxRows :
       LET start == Max(0, value)
           end == Min(Len(data), start + processingCount)
       IN selectedRange' = [start |-> start, end |-> end]
  /\ UNCHANGED <<data, predictions, isProcessing, processingCount, timer, predictionResults, uncaught, consoleError>>
  /\ UNCHANGED mlVars

\* Lines 1080-1088: the Count input, for a typed value 1..MaxRows.
SetCount ==
  /\ \E value \in 1..MaxRows :
       LET count == Max(1, value)
           maxCount == Len(data) - selectedRange.start
           finalCount == Min(count, maxCount)
       IN /\ processingCount' = finalCount
          /\ selectedRange' = [start |-> selectedRange.start, end |-> selectedRange.start + finalCount]
  /\ UNCHANGED <<data, predictions, isProcessing, timer, predictionResults, uncaught, consoleError>>
  /\ UNCHANGED mlVars

Next ==
  \/ GeneratePredictions
  \/ TimerFires
  \/ ResetPredictions
  \/ SelectPreset
  \/ SetStart
  \/ SetCount

Spec == Init /\ [][Next]_vars

(***************************************************************************)
(* MLService: the rule-based habitability predictor of the backend.        *)
(* A planet is a row of the request; the details.input_features of a      *)
(* prediction, a display copy of the planet's feature columns, is not      *)
(* modelled.                                                               *)
(***************************************************************************)
\* The four factors of calculateHabitabilityScore.
SizeFactor(planet) ==
  LET radius == NumOr(parseFloat(Get(planet, "pl_rade")), Num(1))
  IN IF Between(radius, Dec(5, 10), Num(2)) THEN 25
     ELSE IF Between(radius, Dec(3, 10), Num(3)) THEN 15 ELSE 0

OrbitalDistanceFactor(planet) ==
  LET orbitalDistance == NumOr(parseFloat(Get(planet, "pl_orbsmax")), Num(1))
  IN IF Between(orbitalDistance, Dec(5, 10), Num(2)) THEN 25
     ELSE IF Between(orbitalDistance, Dec(2, 10), Num(5)) THEN 10 ELSE 0

TemperatureFactor(planet) ==
  LET temperature == NumOr(parseFloat(Get(planet, "pl_eqt")), Num(288))
  IN IF Between(temperature, Num(273), Num(373)) THEN 25
     ELSE IF Between(temperature, Num(200), Num(500)) THEN 15 ELSE 0

StellarFactor(planet) ==
  LET stellarTemp == NumOr(parseFloat(Get(planet, "st_teff")), Num(5778))
  IN IF Between(stellarTemp, Num(4000), Num(7000)) THEN 25
     ELSE IF Between(stellarTemp, Num(3000), Num(8000)) THEN 15 ELSE 0

\* score / factors with factors = 4.
calculateHabitabilityScore(planet) ==
  Fin(((SizeFactor(planet) + OrbitalDistanceFactor(planet) + TemperatureFactor(planet)
        + StellarFactor(planet)) * Scale) \div 4)

classifyHabitability(score) ==
  IF Ge(score, Num(75)) THEN "habitable"
  ELSE IF Ge(score, Num(50)) THEN "potentially_habitable"
  ELSE "not_habitable"

\* The three probabilities: (1 - confidence) / 2 each, confidence for the prediction.
generateProbabilities(prediction, confidence) ==
  [class \in {"habitable", "potentially_habitable", "not_habitable"} |->
     IF class = prediction THEN confidence ELSE Fin((Scale - confidence.v) \div 2)]

\* The messages of reasons whose condition holds, in order.
Reasons(messages, conditions) ==
  LET kept == {i \in 1..Len(messages) : conditions[i]}
      nth[k \in 1..Cardinality(kept)] ==
        CHOOSE i \in kept : Cardinality({j \in kept : j < i}) = k - 1
  IN [k \in 1..Cardinality(kept) |-> messages[nth[k]]]

generateHabitabilityReasoning(planet, prediction) ==
  LET radius == NumOr(parseFloat(Get(planet, "pl_rade")), Num(1))
      temp == NumOr(parseFloat(Get(planet, "pl_eqt")), Num(288))
      orbitalDistance == NumOr(parseFloat(Get(planet, "pl_orbsmax")), Num(1))
  IN IF prediction = "habitable"
       THEN Reasons(<<"Planet size is in the optimal range for habitability",
                      "Temperature allows for liquid water",
                      "Located in the habitable zone">>,
                    <<Between(radius, Dec(5, 10), Num(2)),
                      Between(temp, Num(273), Num(373)),
                      Between(orbitalDistance, Dec(5, 10), Num(2))>>)
     ELSE IF prediction = "potentially_habitable"
       THEN Reasons(<<"Some conditions favor habitability but uncertainties remain",
                      "Planet size is outside optimal range",
                      "Temperature may not support liquid water">>,
                    <<TRUE,
                      Lt(radius, Dec(5, 10)) \/ Gt(radius, Num(2)),
                      Lt(temp, Num(273)) \/ Gt(temp, Num(373))>>)
     ELSE Reasons(<<"Conditions are not favorable for habitability",
                    "Planet is too large (likely gas giant)",
                    "Temperature is too high",
                    "Temperature is too low">>,
                  <<TRUE, Gt(radius, Num(5)), Gt(temp, Num(500)), Lt(temp, Num(200))>>)

\* The result of one planet of the request (includeDetails is true).
HabitabilityPrediction(planet, index) ==
  LET habitabilityScore == calculateHabitabilityScore(planet)
      prediction == classifyHabitability(habitabilityScore)
      confidence == MathMin(Dec(95, 100), MathMax(Dec(1, 10), Fin(habitabilityScore.v \div 100)))
  IN [success |-> TRUE,
      planet_name |-> IF Truthy(OrChain(planet, <<"pl_name", "kepoi_name", "toi">>))
                        THEN OrChain(planet, <<"pl_name", "kepoi_name", "toi">>)
                        ELSE Str(<<"P","l","a","n","e","t","-">> \o NatToString(index + 1)),
      prediction |-> prediction,
      confidence |-> confidence,
      habitability_score |-> habitabilityScore,
      probabilities |-> generateProbabilities(prediction, confidence),
      model_used |-> "Rule-based Analysis",
      reasoning |-> generateHabitabilityReasoning(planet, prediction)]

\* data.map((planet, index) => ...).
predictHabitabilityRuleBased(requestData) ==
  [i \in 1..Len(requestData) |-> HabitabilityPrediction(requestData[i], i - 1)]

\* The planets of a request: each of the four feature columns absent, in its
\* optimal range, in its acceptable range, out of range or unusable, with or
\* without a name.
Planets ==
  {[pl_name |-> name, pl_rade |-> rade, pl_orbsmax |-> orbsmax, pl_eqt |-> eqt, st_teff |-> teff] :
     name \in {Undefined, Str(<<"K","e","p","l","e","r","-","4","4","2"," ","b">>)},
     rade \in {Undefined, NumV(Num(1)), Str(<<"2",".","5">>), NumV(Num(10)), Str(<<"N","/","A">>)},
     orbsmax \in {Undefined, NumV(Num(1)), Str(<<"3">>), NumV(Num(10)), NumV(Num(0))},
     eqt \in {Undefined, NumV(Num(300)), Str(<<"4","5","0">>), NumV(Num(1000)), NumV(Num(100))},
     teff \in {Undefined, NumV(Num(5778)), Str(<<"3","5","0","0">>), NumV(Num(10000)), Str(<<>>)}}

InitML ==
  /\ data = <<>>
  /\ predictions = NoResults
  /\ isProcessing = FALSE
  /\ selectedRange = [start |-> 0, end |-> 10]
  /\ processingCount = 10
  /\ timer = NoTimer
  /\ predictionResults = NoResults
  /\ uncaught = FALSE
  /\ consoleError = FALSE
  /\ mlRequest = <<>>
  /\ mlResponse = <<>>
  /\ service = NewService
  /\ serviceCall = NoCall
  /\ http = NoExchange

\* A habitability request for one planet arrives (predictHabitability, with
\* no trained model in use, passes its data on to the rule-based predictor).
ReceiveRequest ==
  /\ mlRequest = <<>> \/ mlResponse # <<>>
  /\ \E planet \in Planets : mlRequest' = <<planet>>
  /\ mlResponse' = <<>>
  /\ UNCHANGED <<uiVars, service, serviceCall, http>>

\* The request is answered by predictHabitabilityRuleBased.
AnswerRequest ==
  /\ mlRequest # <<>>
  /\ mlResponse = <<>>
  /\ mlResponse' = predictHabitabilityRuleBased(mlRequest)
  /\ UNCHANGED <<mlRequest, uiVars, service, serviceCall, http>>

NextML ==
  \/ ReceiveRequest
  \/ AnswerRequest

SpecML == InitML /\ [][NextML]_vars

(***************************************************************************)
(* MLService: the trained model first, the rules as fallback.  The Python  *)
(* service is the environment: whether its process starts, what /health    *)
(* answers, and whether POST /predict answers success, answers             *)
(* success=false or throws (connection refused, timeout, a status outside  *)
(* 2xx, a malformed body) are chosen by the caller of the operators below. *)
(* A value a method returns is tagged with its JavaScript type; the        *)
(* processing_time of a result, read from the clock, is not modelled.      *)
(***************************************************************************)
\* { predictions, processing_time } and { predictions, processing_time, model_used: 'trained' }.
ResultObject(predictionList, modelUsed) ==
  [type |-> "object", predictions |-> predictionList, model_used |-> modelUsed]

\* An exception that leaves a method.
TypeError == [type |-> "TypeError"]

\* The answers of the Python service to POST /predict, and the labels of the trained model.
PythonAnswers == {"success", "failure", "throws"}
TrainedLabels == {"CONFIRMED", "CANDIDATE", "FALSE_POSITIVE", "UNKNOWN"}

\* initializeModels: usePythonService is true exactly when the process
\* started and /health answered model_loaded = true.
initializeModels(svc, started, health) ==
  [isInitialized |-> TRUE, usePythonService |-> started /\ health, pythonServiceProcess |-> TRUE]

mapTrainedModelPrediction(trainedPrediction) ==
  CASE trainedPrediction = "CONFIRMED" -> "habitable"
    [] trainedPrediction = "CANDIDATE" -> "potentially_habitable"
    [] trainedPrediction = "FALSE_POSITIVE" -> "not_habitable"
    [] OTHER -> "potentially_habitable"

\* response.data.data.predictions.map(...): one prediction per planet, all
\* with the label the trained model chose.
TrainedPredictions(requestData, prediction) ==
  [i \in 1..Len(requestData) |->
     [success |-> TRUE, prediction |-> prediction, model_used |-> "Gradient Boosting (Trained)"]]

\* planet.pl_name || planet.kepoi_name || planet.toi || `Planet-${index + 1}`.
PredictionName(planet, index) ==
  IF Truthy(OrChain(planet, <<"pl_name", "kepoi_name", "toi">>))
    THEN OrChain(planet, <<"pl_name", "kepoi_name", "toi">>)
    ELSE Str(<<"P","l","a","n","e","t","-">> \o NatToString(index + 1))

\* classifyPlanetType: the type follows from the radius (the confidence and
\* the probabilities, which need a cube root of the mass, are not modelled).
classifyPlanetType(planet) ==
  LET radius == NumOr(parseFloat(Get(planet, "pl_rade")), NumOr(parseFloat(Get(planet, "koi_prad")), Num(1)))
  IN IF Lt(radius, Dec(125, 100)) THEN "Rocky"
     ELSE IF Lt(radius, Num(2)) THEN "Super-Earth"
     ELSE IF Lt(radius, Num(4)) THEN "Neptune-like"
     ELSE "Gas Giant"

classifyPlanetsRuleBased(requestData) ==
  [i \in 1..Len(requestData) |->
     [success |-> TRUE, planet_name |-> PredictionName(requestData[i], i - 1),
      prediction |-> classifyPlanetType(requestData[i]), model_used |-> "Rule-based Classification"]]

\* (planet.disposition || planet.koi_disposition || planet.tfopwg_disp || '').
DetectionDisposition(planet) ==
  Or(OrChain(planet, <<"disposition", "koi_disposition", "tfopwg_disp">>), Str(<<>>))

\* validateDetection throws at .toLowerCase() when the disposition is not a string.
ValidateDetectionThrows(planet) == DetectionDisposition(planet).t # "str"

\* validateDetection: status and confidence.
validateDetection(planet) ==
  LET disposition == toLowerCase(DetectionDisposition(planet).s)
      koiScore == NumOr(parseFloat(Get(planet, "koi_score")), Dec(5, 10))
      period == NumOr(parseFloat(OrChain(planet, <<"pl_orbper", "koi_period">>)), Num(0))
      radius == NumOr(parseFloat(OrChain(planet, <<"pl_rade", "koi_prad">>)), Num(0))
  IN IF includes(disposition, <<"c","o","n","f","i","r","m","e","d">>) THEN [status |-> "CONFIRMED", confidence |-> Dec(95, 100)]
     ELSE IF includes(disposition, <<"c","a","n","d","i","d","a","t","e">>) THEN [status |-> "CANDIDATE", confidence |-> Dec(7, 10)]
     ELSE IF includes(disposition, <<"f","a","l","s","e">>) THEN [status |-> "FALSE_POSITIVE", confidence |-> Dec(9, 10)]
     ELSE IF Gt(koiScore, Dec(8, 10)) /\ Gt(period, Dec(1, 10)) /\ Gt(radius, Dec(1, 10))
       THEN [status |-> "CANDIDATE", confidence |-> Fin((koiScore.v * 8) \div 10)]
     ELSE IF Lt(koiScore, Dec(3, 10)) THEN [status |-> "FALSE_POSITIVE", confidence |-> Dec(7, 10)]
     ELSE [status |-> "CANDIDATE", confidence |-> Dec(5, 10)]

\* detectExoplanetsRuleBased: data.map without a try, so that an exception of
\* validateDetection leaves the method.
detectExoplanetsRuleBased(requestData) ==
  IF \E i \in 1..Len(requestData) : ValidateDetectionThrows(requestData[i]) THEN TypeError
  ELSE ResultObject([i \in 1..Len(requestData) |->
                       [success |-> TRUE, planet_name |-> PredictionName(requestData[i], i - 1),
                        prediction |-> validateDetection(requestData[i]).status,
                        confidence |-> validateDetection(requestData[i]).confidence,
                        model_used |-> "Rule-based Detection"]],
                    "none")

\* The body the three methods share: initializeModels when the instance is
\* not initialized, then POST /predict when usePythonService is set; its
\* answer success returns the trained predictions, an exception clears
\* usePythonService, and in every other case the rule-based method runs.
\* The result names the instance afterwards and the call with what it returned.
TrainedFirst(svc, method, requestData, env, trained, ruleBased) ==
  LET ready == IF svc.isInitialized THEN svc ELSE initializeModels(svc, env.started, env.health)
      contacted == ready.usePythonService
  IN [service |-> IF contacted /\ env.answer = "throws" THEN [ready EXCEPT !.usePythonService = FALSE] ELSE ready,
      call |-> [method |-> method,
                data |-> requestData,
                initialized |-> ~svc.isInitialized,
                contacted |-> contacted,
                answer |-> IF contacted THEN env.answer ELSE "none",
                returned |-> IF contacted /\ env.answer = "success"
                               THEN ResultObject(trained, "trained") ELSE ruleBased]]

predictHabitability(svc, requestData, env) ==
  TrainedFirst(svc, "predictHabitability", requestData, env,
               TrainedPredictions(requestData, mapTrainedModelPrediction(env.label)),
               ResultObject(predictHabitabilityRuleBased(requestData), "none"))

classifyPlanets(svc, requestData, env) ==
  TrainedFirst(svc, "classifyPlanets", requestData, env,
               TrainedPredictions(requestData, env.label),
               ResultObject(classifyPlanetsRuleBased(requestData), "none"))

detectExoplanets(svc, requestData, env) ==
  TrainedFirst(svc, "detectExoplanets", requestData, env,
               TrainedPredictions(requestData, env.label),
               detectExoplanetsRuleBased(requestData))

\* What the Python service does during one call: the label matters only to
\* an answer success, the start and the health check only to an initialization.
Environments ==
  {env \in [started : BOOLEAN, health : BOOLEAN, answer : PythonAnswers, label : TrainedLabels] :
     /\ env.answer # "success" => env.label = "UNKNOWN"
     /\ ~env.started => ~env.health}

\* The planets of the requests to the instance: dispositions of each kind, a
\* disposition a CSV column coded as a number, and rows judged by their scores.
ServicePlanets ==
  {("pl_name" :> Str(<<"K","e","p","l","e","r","-","4","4","2"," ","b">>)) @@ ("disposition" :> Str(<<"C","O","N","F","I","R","M","E","D">>)) @@ ("pl_rade" :> NumV(Dec(134, 100))),
   ("kepoi_name" :> Str(<<"K","0","0","7","5","2",".","0","1">>)) @@ ("koi_disposition" :> Str(<<"C","A","N","D","I","D","A","T","E">>)) @@ ("koi_prad" :> NumV(Dec(226, 100))),
   ("toi" :> Str(<<"1","0","0","0",".","0","1">>)) @@ ("tfopwg_disp" :> Str(<<"F","a","l","s","e"," ","P","o","s","i","t","i","v","e">>)) @@ ("pl_rade" :> NumV(Num(12))),
   ("koi_score" :> NumV(Dec(9, 10))) @@ ("koi_period" :> NumV(Num(10))) @@ ("koi_prad" :> NumV(Num(3))),
   ("koi_score" :> NumV(Dec(1, 10))),
   ("pl_name" :> Str(<<"O","b","j","e","c","t","-","1">>)) @@ ("disposition" :> NumV(Num(1)))}

ServiceData ==
  {<<planet>> : planet \in ServicePlanets}
    \cup {<<("koi_score" :> NumV(Dec(1, 10))), ("pl_name" :> Str(<<"K","e","p","l","e","r","-","4","4","2"," ","b">>))>>}

InitService ==
  /\ data = <<>>
  /\ predictions = NoResults
  /\ isProcessing = FALSE
  /\ selectedRange = [start |-> 0, end |-> 10]
  /\ processingCount = 10
  /\ timer = NoTimer
  /\ predictionResults = NoResults
  /\ uncaught = FALSE
  /\ consoleError = FALSE
  /\ mlRequest = <<>>
  /\ mlResponse = <<>>
  /\ service = NewService
  /\ serviceCall = NoCall
  /\ http = NoExchange

\* A method has run to completion on the instance.
Returns(outcome) == service' = outcome.service /\ serviceCall' = outcome.call

InitializeModels ==
  /\ \E env \in Environments :
       /\ env.answer = "failure"
       /\ service' = initializeModels(service, env.started, env.health)
  /\ serviceCall' = [method |-> "initializeModels", initialized |-> TRUE, contacted |-> FALSE, answer |-> "none"]
  /\ UNCHANGED <<uiVars, mlRequest, mlResponse, http>>

PredictHabitability ==
  /\ \E requestData \in ServiceData, env \in Environments :
       Returns(predictHabitability(service, requestData, env))
  /\ UNCHANGED <<uiVars, mlRequest, mlResponse, http>>

ClassifyPlanets ==
  /\ \E requestData \in ServiceData, env \in Environments :
       Returns(classifyPlanets(service, requestData, env))
  /\ UNCHANGED <<uiVars, mlRequest, mlResponse, http>>

DetectExoplanets ==
  /\ \E requestData \in ServiceData, env \in Environments :
       Returns(detectExoplanets(service, requestData, env))
  /\ UNCHANGED <<uiVars, mlRequest, mlResponse, http>>

\* The 'exit' handler of the Python process.
PythonExit ==
  /\ service.pythonServiceProcess
  /\ service' = [service EXCEPT !.usePythonService = FALSE]
  /\ UNCHANGED <<uiVars, mlRequest, mlResponse, serviceCall, http>>

\* dispose().
Dispose ==
  /\ service' = [service EXCEPT !.pythonServiceProcess = FALSE, !.isInitialized = FALSE]
  /\ UNCHANGED <<uiVars, mlRequest, mlResponse, serviceCall, http>>

NextService ==
  \/ InitializeModels
  \/ PredictHabitability
  \/ ClassifyPlanets
  \/ DetectExoplanets
  \/ PythonExit
  \/ Dispose

SpecService == InitService /\ [][NextService]_vars


(***************************************************************************)
(* The routes POST /api/predict and POST /api/predict/batch.  Each request *)
(* passes validator.predict, creates an MLService of its own and awaits    *)
(* its calls one after the other; an exception of the handler goes to      *)
(* errorHandler through next(error).                                       *)
(***************************************************************************)
\* validator.predict: data is required and has at least one item.
ValidationFails(requestData) == Len(requestData) < 1

\* errorHandler: 400 for a validation error; the message of a TypeError names
\* neither CSV nor TensorFlow nor model and the error has no code or
\* statusCode, so it is answered with 500.
errorHandler(err) == IF err.type = "ValidationError" THEN 400 ELSE 500

\* The response to a request that ended in next(error).
ErrorResponse(route, requestData, model, err, serviceCreated) ==
  [route |-> route, data |-> requestData, model |-> model, status |-> errorHandler(err), success |-> FALSE,
   serviceCreated |-> serviceCreated]

\* switch (modelType): the method of a new MLService that serves the request.
RoutePredictions(modelType, requestData, env) ==
  CASE modelType = "classification" -> classifyPlanets(NewService, requestData, env).call.returned
    [] modelType = "detection" -> detectExoplanets(NewService, requestData, env).call.returned
    [] OTHER -> predictHabitability(NewService, requestData, env).call.returned

\* The indices of the array items that satisfy Test.
Filter(items, Test(_)) == {i \in 1..Len(items) : Test(items[i])}

IsSuccess(p) == p.success
IsHabitable(p) == p.prediction \in {"habitable", "CONFIRMED"}
IsPotentiallyHabitable(p) == p.prediction \in {"potentially_habitable", "CANDIDATE"}
IsNotHabitable(p) == p.prediction \in {"not_habitable", "FALSE_POSITIVE"}
IsUnknown(p) == ~p.success \/ p.prediction = "unknown"

\* The summary and the groups of router.post('/') for the array items.
PredictSummary(requestData, modelType, items) ==
  [summary |-> [total_processed |-> Len(requestData),
                successful_predictions |-> Cardinality(Filter(items, IsSuccess)),
                failed_predictions |-> Len(items) - Cardinality(Filter(items, IsSuccess)),
                model_used |-> modelType],
   grouped |-> [habitable |-> Filter(items, IsHabitable),
                potentially_habitable |-> Filter(items, IsPotentiallyHabitable),
                not_habitable |-> Filter(items, IsNotHabitable),
                unknown |-> Filter(items, IsUnknown)]]

\* The response of router.post('/') when the method returned the value
\* returned, which the handler names predictions: its filter is a function
\* only if it is an array.
PredictResponse(requestData, model, modelType, returned) ==
  IF returned.type # "array"
    THEN ErrorResponse("/api/predict", requestData, model, TypeError, TRUE)
  ELSE [route |-> "/api/predict", data |-> requestData, model |-> model, status |-> 200, success |-> TRUE,
        serviceCreated |-> TRUE] @@ PredictSummary(requestData, modelType, returned.items)

\* router.post('/').
predictHandler(requestData, model, env) ==
  IF ValidationFails(requestData)
    THEN ErrorResponse("/api/predict", requestData, model, [type |-> "ValidationError"], FALSE)
  ELSE PredictResponse(requestData, model, IF model = "absent" THEN "habitability" ELSE model,
                       RoutePredictions(IF model = "absent" THEN "habitability" ELSE model, requestData, env))

\* for (let i = 0; i < data.length; i += chunkSize) chunks.push(data.slice(i, i + chunkSize)).
Chunks(requestData, chunkSize) ==
  [k \in 1..((Len(requestData) + chunkSize - 1) \div chunkSize) |->
     SubSeq(requestData, (k - 1) * chunkSize + 1, Min(k * chunkSize, Len(requestData)))]

\* The loop over the chunks from chunk k on: results.push(...chunkResults)
\* throws unless chunkResults is iterable; otherwise processed grows by the
\* length of the chunk.
RECURSIVE ProcessChunks(_, _, _, _, _)
NextChunk(outcome, chunks, k, env, processed) ==
  IF outcome.call.returned.type # "array" THEN TypeError
  ELSE ProcessChunks(outcome.service, chunks, k + 1, env, processed + Len(chunks[k]))

ProcessChunks(svc, chunks, k, env, processed) ==
  IF k > Len(chunks) THEN [type |-> "done", processed |-> processed]
  ELSE NextChunk(predictHabitability(svc, chunks[k], env), chunks, k, env, processed)

\* The response of router.post('/batch') after the loop.
BatchResponse(requestData, loop) ==
  IF loop.type = "TypeError"
    THEN ErrorResponse("/api/predict/batch", requestData, "absent", TypeError, TRUE)
  ELSE [route |-> "/api/predict/batch", data |-> requestData, model |-> "absent", status |-> 200,
        success |-> TRUE, serviceCreated |-> TRUE,
        summary |-> [total_records |-> Len(requestData), processed_records |-> loop.processed]]

\* router.post('/batch').
batchHandler(requestData, env) ==
  IF ValidationFails(requestData)
    THEN ErrorResponse("/api/predict/batch", requestData, "absent", [type |-> "ValidationError"], FALSE)
  ELSE IF Len(requestData) > 1000
    THEN [route |-> "/api/predict/batch", data |-> requestData, model |-> "absent", status |-> 400,
          success |-> FALSE, serviceCreated |-> FALSE, max_batch_size |-> 1000, received |-> Len(requestData)]
  ELSE BatchResponse(requestData, ProcessChunks(NewService, Chunks(requestData, 100), 1, env, 0))

\* The Python service during one request: it does not start, it is not
\* healthy, or it is in use and answers one way or another.
RouteEnvironments ==
  {env \in Environments :
     /\ ~env.health => env.answer = "failure"
     /\ env.answer = "success" => env.label = "CONFIRMED"}

\* options.model, when options or its model is given.
RouteModels == {"absent", "habitability", "classification", "detection"}

\* The data of the requests to POST /api/predict: none, one or two planets.
RouteData ==
  {<<>>} \cup ServiceData
    \cup {<<planet>> : planet \in {p \in Planets : p.pl_name = Undefined /\ p.pl_orbsmax = Undefined /\ p.pl_eqt = Undefined}}

\* The data of the batches: those, and batches around the chunk size and
\* the maximum batch size.
BatchSizes == {100, 101, 1000, 1001}
BatchData == RouteData \cup {[i \in 1..n |-> ("pl_name" :> Str(<<"K","e","p","l","e","r","-","4","4","2"," ","b">>))] : n \in BatchSizes}

PostPredict ==
  /\ \E requestData \in RouteData, model \in RouteModels, env \in RouteEnvironments :
       http' = predictHandler(requestData, model, env)
  /\ UNCHANGED <<uiVars, mlRequest, mlResponse, service, serviceCall>>

PostPredictBatch ==
  /\ \E requestData \in BatchData, env \in RouteEnvironments :
       http' = batchHandler(requestData, env)
  /\ UNCHANGED <<uiVars, mlRequest, mlResponse, service, serviceCall>>

NextRoutes ==
  \/ PostPredict
  \/ PostPredictBatch

SpecRoutes == InitService /\ [][NextRoutes]_vars

(***************************************************************************)
(* Properties.                                                             *)
(***************************************************************************)

\* The results held by a results state (none when it is null).
ResultSet(rs) == {rs.results[i] : i \in 1..Len(rs.results)}

\* Every result the component holds or has handed to the page.
Delivered == ResultSet(predictions) \cup ResultSet(predictionResults)

\* The row of data a result was computed from.
RowOf(r) == data[r.originalIndex + 1]

Classifications == {"Confirmed Exoplanet", "Candidate Exoplanet", "False Positive"}

\* The six schema families in the order of the detection chain, each with
\* its detection condition and its rule set taken on its own.
Families == <<"NASA KOI", "NASA Archive", "TESS", "ESO/HARPS", "Ground Survey", "Generic">>

FamilyDetected(f, row, planetName) ==
  CASE f = "NASA KOI" -> IsKoi(row)
    [] f = "NASA Archive" -> IsArchive(row)
    [] f = "TESS" -> IF planetName.t = "str" THEN IsTess(row, planetName)
                     ELSE Truthy(OrChain(row, <<"tic_id", "toi_id">>))
    [] f = "ESO/HARPS" -> IF planetName.t = "str" THEN IsHarps(row, planetName)
                          ELSE Truthy(Get(row, "harps_id"))
    [] f = "Ground Survey" -> planetName.t = "str" /\ IsGroundSurvey(planetName)
    [] f = "Generic" -> IsGeneric(row)

FamilyRules(f, row) ==
  CASE f = "NASA KOI" -> KoiRules(row)
    [] f = "NASA Archive" -> ArchiveRules(row)
    [] f = "TESS" -> TessRules(row)
    [] f = "ESO/HARPS" -> HarpsRules(row)
    [] f = "Ground Survey" -> GroundSurveyRules
    [] f = "Generic" -> GenericRules(row)

\* The positions in Families of the families whose condition the row of r satisfies.
DetectedFamilies(r) == {i \in 1..Len(Families) : FamilyDetected(Families[i], RowOf(r), r.planetName)}

EarliestFamily(r) == Families[CHOOSE i \in DetectedFamilies(r) : \A j \in DetectedFamilies(r) : i <= j]

\* C1: the confidence of every emitted result is an integer between 0 and
\* 100, whichever family or the fallback produced it and whatever koi_score
\* and the physical parameters are.
ConfidenceBounds ==
  \A r \in Delivered :
    /\ r.confidence.k = "fin"
    /\ r.confidence.v % Scale = 0
    /\ r.confidence.v >= 0
    /\ r.confidence.v <= 100 * Scale

\* A batch with a KOI score above 1 (65 + 5 * 15 is clamped to 100) and one
\* below 0 (15 - 3 * 10 is clamped to 0).
ConfidenceBoundsWitness ==
  \E r1, r2 \in ResultSet(predictions) :
    /\ RowOf(r1) = Catalogue[3] /\ r1.dataSource = "NASA KOI" /\ r1.confidence = Num(100)
    /\ RowOf(r2) = Catalogue[4] /\ r2.dataSource = "NASA KOI" /\ r2.confidence = Num(0)

\* C2: the classification of every emitted result is one of the three
\* labels, never empty, also when a family was detected and none of its
\* rules matched the disposition or status text.
ClassificationEnum == \A r \in Delivered : r.classification \in Classifications

\* A KOI row whose disposition matches no KOI rule has been classified.
ClassificationEnumWitness ==
  \E r \in ResultSet(predictions) :
    /\ RowOf(r) = Catalogue[5]
    /\ IsKoi(RowOf(r)) /\ KoiRules(RowOf(r)).classification = ""
    /\ r.classification \in Classifications

\* The indices of the rows a results state covers.
IndexSet(rs) == {r.originalIndex : r \in ResultSet(rs)}

FirstMatchWins ==
  \A r \in Delivered :
    /\ DetectedFamilies(r) # {} =>
         LET rules == FamilyRules(EarliestFamily(r), RowOf(r))
         IN IF rules.classification # ""
              THEN /\ r.dataSource = EarliestFamily(r)
                   /\ r.classification = rules.classification
                   /\ r.confidence = MathRound(MathMax(Num(0), MathMin(Num(100), rules.confidence)))
              ELSE r.dataSource = "Habitability Analysis"
    /\ RowOf(r) = Catalogue[2] =>
         /\ r.dataSource = "NASA KOI"
         /\ r.classification = "Confirmed Exoplanet"
         /\ Ge(r.confidence, Num(85)) /\ Le(r.confidence, Num(95))
    /\ RowOf(r) = Catalogue[10] =>
         /\ r.dataSource = "Ground Survey"
         /\ r.classification = "Confirmed Exoplanet"
         /\ r.confidence = Num(82)

\* A row that satisfies the conditions of two families has been classified
\* by the earlier one.
FirstMatchWinsWitness ==
  \E r \in ResultSet(predictions) :
    /\ Cardinality(DetectedFamilies(r)) >= 2
    /\ r.dataSource = EarliestFamily(r)
    /\ RowOf(r) \in {Catalogue[2], Catalogue[10]}

\* C5: the habitability analysis scores a row only when no family was
\* detected; a row for which a family was detected is never scored by it.
FallbackOnlyWhenUndetected ==
  \A r \in Delivered : r.dataSource = "Habitability Analysis" => DetectedFamilies(r) = {}

RowFields(r) == <<r.planetName, r.classification, r.confidence, r.parameters>>

\* A row with a truthy value in one of the seven name columns.
HasName(row) ==
  \E col \in {"pl_name", "kepler_name", "kepoi_name", "Planet Name", "name", "planet_name", "object_name"} :
    Truthy(Get(row, col))

\* C7 as stated: two rows with the same columns get the same planetName,
\* classification, confidence and parameters, wherever they are in the data
\* and with or without a name column.
RowIndependence ==
  \A r1, r2 \in Delivered : RowOf(r1) = RowOf(r2) => RowFields(r1) = RowFields(r2)

\* C7 as amended: the result of a row depends on the columns of the row and,
\* for a row without a name column, on its index in the data; it depends on
\* nothing else.  Two results of rows with the same columns, in one batch or
\* in two batches over different ranges, agree when the rows have a name or
\* sit at the same index.
RowIndependenceByName ==
  [][\A r1 \in ResultSet(predictionResults) \cup ResultSet(predictions'), r2 \in ResultSet(predictions') :
       (/\ RowOf(r1) = RowOf(r2)
        /\ HasName(RowOf(r1)) \/ r1.originalIndex = r2.originalIndex)
       => RowFields(r1) = RowFields(r2)]_vars

\* Two rows with the same columns and a name, at different indices, have
\* been classified in one batch.
RowIndependenceByNameWitness ==
  \E r1, r2 \in ResultSet(predictions) :
    /\ r1.originalIndex # r2.originalIndex
    /\ RowOf(r1) = RowOf(r2)
    /\ HasName(RowOf(r1))
    /\ RowFields(r1) = RowFields(r2)

\* A row without any of the disposition and status columns.
NoDispositionField(row) ==
  DOMAIN row \cap {"koi_disposition", "koi_pdisposition", "disposition", "pl_status", "tess_disposition",
                   "status", "classification", "confirmed", "is_confirmed"} = {}

\* C8 as stated: a row named TRAPPIST-1[a-z] without a disposition field is
\* Confirmed with a confidence of at least 85.
FamousNameOverride ==
  \A r \in Delivered :
    (/\ r.planetName.t = "str"
     /\ MatchTrappist(r.planetName.s)
     /\ NoDispositionField(RowOf(r)))
    => r.classification = "Confirmed Exoplanet" /\ Ge(r.confidence, Num(85))

\* C8 as amended: a row scored by the habitability analysis whose name boost
\* (that of the first pattern its name matches) is at least 15 is Confirmed
\* with a confidence of at least 85, whatever its parameters; this covers a
\* row named TRAPPIST-1[a-z] whose name matches none of the seven earlier
\* patterns.
FamousNameOverrideInFallback ==
  \A r \in Delivered :
    /\ (r.dataSource = "Habitability Analysis" /\ NameBoost(toStr(r.planetName)) >= 15)
       => r.classification = "Confirmed Exoplanet" /\ Ge(r.confidence, Num(85))
    /\ (/\ r.dataSource = "Habitability Analysis"
        /\ MatchTrappist(toStr(r.planetName))
        /\ \A p \in {<<<<"k","e","p","l","e","r","-">>, TRUE>>, <<<<"k","2","-">>, TRUE>>, <<<<"t","o","i","-">>, FALSE>>, <<<<"h","a","t","-","p","-">>, FALSE>>,
                     <<<<"w","a","s","p","-">>, FALSE>>, <<<<"h","d"," ">>, FALSE>>, <<<<"g","j"," ">>, FALSE>>} :
             ~MatchDigits(toStr(r.planetName), p[1], p[2]))
       => r.classification = "Confirmed Exoplanet" /\ Ge(r.confidence, Num(85))

\* TRAPPIST-1e with parameters outside every bucket has been scored by the
\* habitability analysis and raised to 85.
FamousNameOverrideInFallbackWitness ==
  \E r \in ResultSet(predictions) :
    /\ RowOf(r) = Catalogue[18]
    /\ r.dataSource = "Habitability Analysis"
    /\ r.parameters.radius = <<"5","0",".","0","0">>
    /\ r.classification = "Confirmed Exoplanet"
    /\ r.confidence = Num(85)

Range(s) == {s[i] : i \in 1..Len(s)}

\* Every column the classifier reads.
RecognizedColumns ==
  {"pl_name", "kepler_name", "kepoi_name", "Planet Name", "name", "planet_name", "object_name",
   "koi_disposition", "koi_pdisposition", "koi_score", "pl_discmethod", "discoverymethod", "disc_method",
   "disposition", "pl_status", "tic_id", "toi_id", "tess_disposition", "harps_id", "confirmed",
   "is_confirmed", "status", "classification"}
  \cup Range(RadiusAliases) \cup Range(MassAliases) \cup Range(PeriodAliases)
  \cup Range(StarTempAliases) \cup Range(DistanceAliases)

\* The name the classifier gives to the row of r when the row has none.
GeneratedName(r) == <<"P","l","a","n","e","t","-">> \o NatToString(r.originalIndex + 1)

\* C9: a row with no recognized column still gets a result, from the
\* habitability analysis, with one of the three classifications and with
\* radius, mass, period, starTemp and distance each synthesized from the
\* hash of the name and the field.
FallbackCompleteness ==
  \A r \in Delivered :
    DOMAIN RowOf(r) \cap RecognizedColumns = {} =>
      /\ r.dataSource = "Habitability Analysis"
      /\ r.classification \in Classifications
      /\ r.planetName = Str(GeneratedName(r))
      /\ r.parameters =
           [radius |-> toFixed(getDeterministicValue(GeneratedName(r), <<"r","a","d","i","u","s">>, Dec(3, 10), Num(3)), 2),
            mass |-> toFixed(getDeterministicValue(GeneratedName(r), <<"m","a","s","s">>, Dec(1, 10), Num(10)), 2),
            period |-> toFixed(getDeterministicValue(GeneratedName(r), <<"p","e","r","i","o","d">>, Num(10), Num(2000)), 1),
            starTemp |-> toFixed(getDeterministicValue(GeneratedName(r), <<"s","t","a","r","T","e","m","p">>, Num(3000), Num(8000)), 0),
            distance |-> toFixed(getDeterministicValue(GeneratedName(r), <<"d","i","s","t","a","n","c","e">>, Num(1), Num(5000)), 1)]

\* A row with no recognized column has been classified.
FallbackCompletenessWitness ==
  \E r \in ResultSet(predictions) :
    /\ DOMAIN RowOf(r) \cap RecognizedColumns = {}
    /\ r.dataSource = "Habitability Analysis"
    /\ r.parameters.radius # <<"0",".","0","0">>

\* C10: the sequence a timer callback delivers is sorted by confidence in
\* descending order, holds exactly one result for each row of the range the
\* callback was given, and is the sequence stored in predictions and the one
\* passed to onResults.
SortInvariant ==
  [][(timer.pending /\ ~timer'.pending /\ uncaught' = uncaught)
     => /\ predictions' # NoResults
        /\ predictionResults' = predictions'
        /\ \A i \in 1..(Len(predictions'.results) - 1) :
             Ge(predictions'.results[i].confidence, predictions'.results[i + 1].confidence)
        /\ Len(predictions'.results) = Len(timer.selectedData)
        /\ \A k \in 1..Len(timer.selectedData) :
             Cardinality({i \in 1..Len(predictions'.results) :
                            predictions'.results[i].originalIndex = timer.startIndex + k - 1}) = 1]_vars

\* A delivered sequence in which a later row precedes an earlier row because
\* its confidence is higher.
SortInvariantWitness ==
  /\ predictions # NoResults
  /\ predictionResults = predictions
  /\ \E i, j \in 1..Len(predictions.results) :
       /\ i < j
       /\ predictions.results[i].originalIndex > predictions.results[j].originalIndex
       /\ Gt(predictions.results[i].confidence, predictions.results[j].confidence)


\* The koi_score of a row: 0 when the column is absent or does not parse.
KoiScoreOf(row) ==
  IF IsNaN(parseFloat(Get(row, "koi_score"))) THEN Num(0) ELSE parseFloat(Get(row, "koi_score"))

\* base + score * factor, rounded to the nearest integer and clamped to [0, 100].
KoiConfidence(base, factor, score) ==
  IF score.k = "pinf" THEN Num(100)
  ELSE IF score.k = "ninf" THEN Num(0)
  ELSE LET value == base * Scale + score.v * factor
       IN IF value <= 0 THEN Num(0)
          ELSE IF value >= 100 * Scale THEN Num(100)
          ELSE Num((value + Scale \div 2) \div Scale)

\* The KOI disposition of a row, in upper case.
KoiDispositionOf(row) == toUpperCase(toStr(OrChain(row, <<"koi_disposition", "koi_pdisposition">>)))

NasaDispositionOf(row) ==
  toUpperCase(toStr(OrChain(row, <<"koi_disposition", "koi_pdisposition", "disposition">>)))

\* C12: a row that carries a NASA disposition is classified after it:
\* CONFIRMED is Confirmed, CANDIDATE is Candidate and FALSE POSITIVE is
\* False Positive, whatever the other columns of the row are.
NasaDispositionRespected ==
  \A r \in Delivered :
    Truthy(OrChain(RowOf(r), <<"koi_disposition", "koi_pdisposition", "disposition">>)) =>
      /\ NasaDispositionOf(RowOf(r)) = <<"C","O","N","F","I","R","M","E","D">> => r.classification = "Confirmed Exoplanet"
      /\ NasaDispositionOf(RowOf(r)) = <<"C","A","N","D","I","D","A","T","E">> => r.classification = "Candidate Exoplanet"
      /\ NasaDispositionOf(RowOf(r)) = <<"F","A","L","S","E"," ","P","O","S","I","T","I","V","E">> => r.classification = "False Positive"

\* The rows of guide case 4, with text cells and with numeric cells.
Scenario4Rows == {Catalogue[13], Catalogue[24]}

\* What scenario 4 says of a result r, but for the star temperature.
Scenario4Outcome(r) ==
  /\ DetectedFamilies(r) = {}
  /\ r.planetName = Str(<<"C","u","s","t","o","m","-","P","l","a","n","e","t","-","1">>)
  /\ r.dataSource = "Habitability Analysis"
  /\ r.parameters.radius = <<"1",".","2","0">> /\ RadiusScore(parseFloat(Get(RowOf(r), "radius"))) = 30
  /\ r.parameters.mass = <<"1",".","1","0">> /\ MassScore(parseFloat(Get(RowOf(r), "mass"))) = 25
  /\ r.habitabilityFactors.size = "Excellent"
  /\ r.habitabilityFactors.mass = "Excellent"
  /\ r.habitabilityFactors.star = "Excellent"
  /\ DetectionScore(Extract(RowOf(r), toStr(r.planetName))) = 20
  /\ r.confidence = Num(100)
  /\ r.classification = "Confirmed Exoplanet"

SelectedData ==
  Slice(data, StartIndex(data, selectedRange.start), EndIndex(data, selectedRange.start, selectedRange.end))

\* C14 as stated: generatePredictions on an empty selection reports no error,
\* leaves isProcessing false and delivers an empty result sequence to the
\* page (at once or by the timer it starts).
EmptyBatchNotAnError ==
  [][(GeneratePredictions /\ Len(SelectedData) = 0) =>
       /\ ~consoleError'
       /\ ~isProcessing'
       /\ timer'.pending \/ predictionResults' = Results(<<>>)]_vars

\* C14, amended: generatePredictions on an empty selection writes an error
\* to the console, clears predictions, starts no timer, leaves isProcessing
\* false and delivers nothing to the page; an empty result sequence is never
\* delivered.
EmptySelectionReported ==
  /\ [](consoleError => predictions = NoResults /\ ~isProcessing /\ ~timer.pending)
  /\ [](~predictionResults.null => Len(predictionResults.results) > 0)
  /\ [][(GeneratePredictions /\ Len(SelectedData) = 0) =>
          consoleError' /\ predictionResults' = predictionResults]_vars

\* An empty range was analysed after results had been delivered: the error
\* is on the console and the page still holds the earlier results.
EmptySelectionReportedWitness ==
  /\ consoleError
  /\ Len(SelectedData) = 0
  /\ predictions = NoResults
  /\ ~isProcessing
  /\ ~predictionResults.null

\* The planet-name columns in the order the field mapping of the guide gives.
DocumentedNameColumns == <<"pl_name", "kepler_name", "kepoi_name", "planet_name", "object_name", "name">>

\* C15: the planet name of a row is the first non-empty value among pl_name,
\* kepler_name, kepoi_name, planet_name, object_name, name, in that order,
\* and Planet-N when none is present; a row with planet_name and name is
\* named after planet_name.
PlanetNameOrder ==
  \A r \in Delivered :
    r.planetName = IF Truthy(OrChain(RowOf(r), DocumentedNameColumns))
                     THEN OrChain(RowOf(r), DocumentedNameColumns)
                     ELSE Str(GeneratedName(r))

\* C16: the rule-based predictor is a three-class classifier: every
\* prediction is one of habitable, potentially_habitable, not_habitable, and
\* a planet whose four factors are all in the optimal range (25 each) is
\* predicted habitable.
ThreeClassPredictor ==
  \A i \in 1..Len(mlResponse) :
    /\ mlResponse[i].prediction \in {"habitable", "potentially_habitable", "not_habitable"}
    /\ (SizeFactor(mlRequest[i]) = 25 /\ OrbitalDistanceFactor(mlRequest[i]) = 25
          /\ TemperatureFactor(mlRequest[i]) = 25 /\ StellarFactor(mlRequest[i]) = 25)
         => mlResponse[i].prediction = "habitable"

\* The number of the first alias, in order, whose cell parses to a finite
\* number; NaN when no alias has one.
RECURSIVE FirstUsableAlias(_, _)
FirstUsableAlias(row, aliases) ==
  IF Len(aliases) = 0 THEN NaN
  ELSE IF IsFinite(parseFloat(Get(row, aliases[1]))) THEN parseFloat(Get(row, aliases[1]))
  ELSE FirstUsableAlias(row, Tail(aliases))

\* The value of a field by the rule "first usable alias, else synthetic".
FirstUsableOrSynthetic(row, aliases, name, property, min, max) ==
  IF IsNaN(FirstUsableAlias(row, aliases)) THEN getDeterministicValue(name, property, min, max)
  ELSE FirstUsableAlias(row, aliases)

\* No cell of the row parses to Infinity or -Infinity.
NoInfiniteCell(row) ==
  \A col \in DOMAIN row : parseFloat(row[col]).k \notin {"pinf", "ninf"}

\* C17: each extracted field is the number of the first alias, in declared
\* order, that is present and parses to a finite number; an earlier alias
\* that does not parse is passed over, and the synthetic value is used only
\* when no alias yields a number (rows with an infinite cell left aside).
FirstUsableAliasWins ==
  \A r \in Delivered :
    LET row == RowOf(r)
        name == toStr(r.planetName)
    IN NoInfiniteCell(row) =>
       /\ r.parameters.radius =
            toFixed(FirstUsableOrSynthetic(row, RadiusAliases, name, <<"r","a","d","i","u","s">>, Dec(3, 10), Num(3)), 2)
       /\ r.parameters.mass =
            toFixed(FirstUsableOrSynthetic(row, MassAliases, name, <<"m","a","s","s">>, Dec(1, 10), Num(10)), 2)
       /\ r.parameters.period =
            toFixed(FirstUsableOrSynthetic(row, PeriodAliases, name, <<"p","e","r","i","o","d">>, Num(10), Num(2000)), 1)
       /\ r.parameters.starTemp =
            toFixed(FirstUsableOrSynthetic(row, StarTempAliases, name, <<"s","t","a","r","T","e","m","p">>, Num(3000), Num(8000)), 0)
       /\ r.parameters.distance =
            toFixed(FirstUsableOrSynthetic(row, DistanceAliases, name, <<"d","i","s","t","a","n","c","e">>, Num(1), Num(5000)), 1)

ParameterFields == {"radius", "mass", "period", "starTemp", "distance"}

\* C18: every extracted parameter used for scoring and emitted in a result
\* is a finite number; a cell such as 'Infinity' is not taken as a value.
ParametersFinite ==
  \A r \in Delivered : \A field \in ParameterFields :
    /\ IsFinite(Extract(RowOf(r), toStr(r.planetName))[field])
    /\ r.parameters[field] \notin {<<"I","n","f","i","n","i","t","y">>, <<"-","I","n","f","i","n","i","t","y">>, <<"N","a","N">>}

AliasesOf(field) ==
  CASE field = "radius" -> RadiusAliases
    [] field = "mass" -> MassAliases
    [] field = "period" -> PeriodAliases
    [] field = "starTemp" -> StarTempAliases
    [] field = "distance" -> DistanceAliases

\* The fields of a row whose value was parsed from the row, not synthesized.
ParsedFields(row) ==
  {field \in ParameterFields : Truthy(NumV(parseFloat(OrChain(row, AliasesOf(field)))))}

\* The confidence of the habitability analysis when the completeness bonus is bonus.
ConfidenceWithBonus(name, p, bonus) ==
  MathRound(Clamp(HabitabilityOutcome(
    NameBoost(name),
    Add(Num(RadiusScore(p.radius) + MassScore(p.mass) + PeriodScore(p.period) + StarScore(p.starTemp) + bonus),
        DeterministicAdjustment(name, p))).confidence))

\* C19: in the habitability analysis the completeness bonus is 4 points for
\* each of the five parameters that was parsed from the row and not
\* synthesized: 0 for an all-synthetic row, 20 for a fully populated one.
CompletenessCountsParsedFields ==
  \A r \in Delivered :
    r.dataSource = "Habitability Analysis" =>
      r.confidence = ConfidenceWithBonus(toStr(r.planetName), Extract(RowOf(r), toStr(r.planetName)),
                                         4 * Cardinality(ParsedFields(RowOf(r))))

\* C20: for a result of the habitability analysis without the name override
\* (name boost below 15) the emitted confidence and the emitted
\* classification agree with the thresholds: 80 and above is Confirmed, 50
\* to below 80 is Candidate, below 50 is False Positive.
ThresholdAgreement ==
  \A r \in Delivered :
    (r.dataSource = "Habitability Analysis" /\ NameBoost(toStr(r.planetName)) < 15) =>
      /\ Ge(r.confidence, Num(80)) <=> r.classification = "Confirmed Exoplanet"
      /\ (Ge(r.confidence, Num(50)) /\ Lt(r.confidence, Num(80))) <=> r.classification = "Candidate Exoplanet"
      /\ Lt(r.confidence, Num(50)) <=> r.classification = "False Positive"

\* The four factor scores of extracted parameters p.
FactorScores(p) ==
  [size |-> RadiusScore(p.radius), mass |-> MassScore(p.mass),
   orbit |-> PeriodScore(p.period), star |-> StarScore(p.starTemp)]

\* The factor scores of the parameters of a result.
ScoresOf(r) == FactorScores(Extract(RowOf(r), toStr(r.planetName)))

\* The scores of the tiers of a factor: the top one, the second and the third.
TierScores ==
  [size |-> <<30, 20, 10>>, mass |-> <<25, 15, 8>>, orbit |-> <<25, 15, 8>>, star |-> <<20, 12, 5>>]

\* Each label of labels is Excellent exactly for a top score, Good exactly
\* for a score of the tiers good, Poor exactly for a score of the tiers poor.
LabelsName(labels, scores, good, poor) ==
  \A f \in DOMAIN TierScores :
    /\ labels[f] = "Excellent" <=> scores[f] = TierScores[f][1]
    /\ labels[f] = "Good" <=> scores[f] \in {TierScores[f][i] : i \in good}
    /\ labels[f] = "Poor" <=> scores[f] \in {TierScores[f][i] : i \in poor} \cup {0}

\* C21 as stated: a label is Excellent exactly when the factor scored its
\* top value, Good exactly when it scored in either lower tier, and Poor
\* exactly when it scored 0.
LabelsNameScoreBuckets ==
  \A r \in Delivered : LabelsName(r.habitabilityFactors, ScoresOf(r), {2, 3}, {})

\* C21, amended: a label is Excellent exactly when the factor scored its top
\* value (30/25/25/20), Good exactly when it scored its second tier
\* (20/15/15/12), and Poor when it scored its third tier (10/8/8/5) or 0.
LabelsNameTopTwoTiers ==
  \A r \in Delivered : LabelsName(r.habitabilityFactors, ScoresOf(r), {2}, {3})

\* A result whose radius scored 10 and is labelled Poor, next to a factor
\* labelled Excellent, has been delivered.
LabelsNameTopTwoTiersWitness ==
  \E r \in Delivered :
    /\ ScoresOf(r).size = 10 /\ r.habitabilityFactors.size = "Poor"
    /\ ScoresOf(r).star = 20 /\ r.habitabilityFactors.star = "Excellent"

\* C22: a row not matched by NASA KOI, NASA Archive or TESS is ESO/HARPS if
\* and only if it has harps_id or its name matches HD or GJ followed by a
\* space and digits; "hd " or "gj " without digits is not ESO/HARPS.
HarpsNeedsDigits ==
  \A r \in Delivered :
    (/\ r.planetName.t = "str"
     /\ ~IsKoi(RowOf(r)) /\ ~IsArchive(RowOf(r)) /\ ~IsTess(RowOf(r), r.planetName)) =>
      (r.dataSource = "ESO/HARPS" <=>
         \/ Truthy(Get(RowOf(r), "harps_id"))
         \/ MatchDigits(r.planetName.s, <<"h","d"," ">>, FALSE)
         \/ MatchDigits(r.planetName.s, <<"g","j"," ">>, FALSE))

\* C23: on an ESO/HARPS row any truthy confirmed flag (confirmed, else
\* is_confirmed) gives Confirmed 88; only a missing or falsy flag gives
\* Candidate 72.
HarpsTruthyFlagConfirms ==
  \A r \in Delivered :
    r.dataSource = "ESO/HARPS" =>
      IF Truthy(OrChain(RowOf(r), <<"confirmed", "is_confirmed">>))
        THEN r.classification = "Confirmed Exoplanet" /\ r.confidence = Num(88)
        ELSE r.classification = "Candidate Exoplanet" /\ r.confidence = Num(72)

\* The first truthy cell among cols as text, the empty text when there is none.
TextOf(row, cols) == toStr(Or(OrChain(row, cols), Str(<<>>)))

\* The result r has the classification and the confidence given.
Rated(r, classification, confidence) ==
  r.classification = classification /\ r.confidence = Num(confidence)

GenericRulesInOrder ==
  \A r \in Delivered :
    (DetectedFamilies(r) # {} /\ EarliestFamily(r) = "Generic") =>
      LET status == toUpperCase(TextOf(RowOf(r), <<"status", "disposition", "classification">>))
          confirm == includes(status, <<"C","O","N","F","I","R","M">>) \/ includes(status, <<"P","U","B","L","I","S","H">>) \/ status = <<"T","R","U","E">>
          candid == includes(status, <<"C","A","N","D","I","D">>) \/ includes(status, <<"P","O","S","S","I","B","L","E">>)
          false == includes(status, <<"F","A","L","S","E">>) \/ includes(status, <<"R","E","J","E","C","T">>)
      IN /\ confirm => Rated(r, "Confirmed Exoplanet", 85) /\ r.dataSource = "Generic"
         /\ (~confirm /\ candid) => Rated(r, "Candidate Exoplanet", 65) /\ r.dataSource = "Generic"
         /\ (~confirm /\ ~candid /\ false) => Rated(r, "False Positive", 25) /\ r.dataSource = "Generic"

\* A status text with CONFIRM and FALSE was rated Confirmed 85, and a
\* disposition Rejected False Positive 25.
GenericRulesInOrderWitness ==
  /\ \E r \in Delivered : RowOf(r) = Catalogue[38] /\ Rated(r, "Confirmed Exoplanet", 85)
  /\ \E r \in Delivered : RowOf(r) = Catalogue[39] /\ Rated(r, "False Positive", 25)

\* The name patterns in priority order, each with its boost.
NamePatterns ==
  <<[prefix |-> <<"k","e","p","l","e","r","-">>, digits |-> TRUE, letter |-> TRUE, boost |-> 15],
    [prefix |-> <<"k","2","-">>, digits |-> TRUE, letter |-> TRUE, boost |-> 12],
    [prefix |-> <<"t","o","i","-">>, digits |-> TRUE, letter |-> FALSE, boost |-> 8],
    [prefix |-> <<"h","a","t","-","p","-">>, digits |-> TRUE, letter |-> FALSE, boost |-> 15],
    [prefix |-> <<"w","a","s","p","-">>, digits |-> TRUE, letter |-> FALSE, boost |-> 15],
    [prefix |-> <<"h","d"," ">>, digits |-> TRUE, letter |-> FALSE, boost |-> 10],
    [prefix |-> <<"g","j"," ">>, digits |-> TRUE, letter |-> FALSE, boost |-> 8],
    [prefix |-> <<"t","r","a","p","p","i","s","t","-","1">>, digits |-> FALSE, letter |-> TRUE, boost |-> 18],
    [prefix |-> <<"p","r","o","x","i","m","a">>, digits |-> FALSE, letter |-> FALSE, boost |-> 20]>>

\* The text rest begins with one or more digits if digits, then a letter if letter.
TailMatches(rest, digits, letter) ==
  LET run == IF digits THEN DigitRun(rest) ELSE 0
  IN /\ digits => run >= 1
     /\ letter => (Len(rest) > run /\ IsLetter(rest[run + 1]))

\* The pattern matches somewhere in the name, whatever the case.
PatternMatches(pattern, name) ==
  \E i \in 1..Len(name) :
    /\ StartsWith(Drop(toLowerCase(name), i - 1), pattern.prefix)
    /\ TailMatches(Drop(toLowerCase(name), i - 1 + Len(pattern.prefix)), pattern.digits, pattern.letter)

\* The patterns that match the name, by their place in the priority order.
MatchingPatterns(name) == {i \in 1..Len(NamePatterns) : PatternMatches(NamePatterns[i], name)}

\* The boost of the earliest matching pattern, 0 when none matches.
FirstPatternBoost(name) ==
  IF MatchingPatterns(name) = {} THEN 0
  ELSE NamePatterns[CHOOSE i \in MatchingPatterns(name) : \A j \in MatchingPatterns(name) : i <= j].boost

\* The outcome of the habitability analysis of parameters p with the name boost boost.
OutcomeWithBoost(name, p, boost) ==
  HabitabilityOutcome(
    boost,
    Add(Num(RadiusScore(p.radius) + MassScore(p.mass) + PeriodScore(p.period) + StarScore(p.starTemp)
            + DetectionScore(p)),
        DeterministicAdjustment(name, p)))

\* The result r is what the habitability analysis gives with the name boost boost.
ScoredWithBoost(r, outcome) ==
  /\ r.classification = outcome.classification
  /\ r.confidence = MathRound(Clamp(outcome.confidence))

\* C26: the name boost of a result of the habitability analysis is that of
\* the first pattern, in priority order, that matches the planet name
\* whatever the case, and 0 when none matches; boosts are never summed.
FirstPatternWins ==
  \A r \in Delivered :
    r.dataSource = "Habitability Analysis" =>
      ScoredWithBoost(r, OutcomeWithBoost(toStr(r.planetName), Extract(RowOf(r), toStr(r.planetName)),
                                          FirstPatternBoost(toStr(r.planetName))))

\* A name matching K2-<digits><letter> (12) and HD <digits> (10) was
\* scored with 12, below the override, next to a name matching GJ <digits>
\* (8) and Proxima (20) scored with 8.
FirstPatternWinsWitness ==
  /\ \E r \in Delivered :
       /\ RowOf(r) = Catalogue[41]
       /\ MatchingPatterns(toStr(r.planetName)) = {2, 6}
       /\ r.classification = "False Positive"
  /\ \E r \in Delivered :
       /\ RowOf(r) = Catalogue[42]
       /\ MatchingPatterns(toStr(r.planetName)) = {7, 9}
       /\ r.classification = "False Positive"

\* The property name and the range from which each field is synthesized.
SyntheticRanges ==
  [radius |-> [property |-> <<"r","a","d","i","u","s">>, min |-> Dec(3, 10), max |-> Num(3)],
   mass |-> [property |-> <<"m","a","s","s">>, min |-> Dec(1, 10), max |-> Num(10)],
   period |-> [property |-> <<"p","e","r","i","o","d">>, min |-> Num(10), max |-> Num(2000)],
   starTemp |-> [property |-> <<"s","t","a","r","T","e","m","p">>, min |-> Num(3000), max |-> Num(8000)],
   distance |-> [property |-> <<"d","i","s","t","a","n","c","e">>, min |-> Num(1), max |-> Num(5000)]]

\* The hash h, a 32-bit pair, is the absolute value of a 32-bit integer: 0 .. 2^31.
IsAbsoluteValue(h) == h.hi < Half \div 2 \/ (h.hi = Half \div 2 /\ h.lo = 0)

\* The hash of name + property is non-negative, its remainder is in
\* 0..9999, and the value synthesized from it, value, is in [min, max).
SyntheticInRange(name, range, value) ==
  /\ IsAbsoluteValue(createHash(name \o range.property))
  /\ HashMod(createHash(name \o range.property), 10000) \in 0..9999
  /\ value = getDeterministicValue(name, range.property, range.min, range.max)
  /\ Ge(value, range.min) /\ Lt(value, range.max)

\* C27: for every synthesized field the hash is non-negative, also when the
\* 32-bit value wrapped to -2^31, the synthesized value lies in [min, max)
\* of the range of its field, and a synthesized radius, mass, period or star
\* temperature scores in at least the lowest positive tier of its factor.
SyntheticValuesInRange ==
  \A r \in Delivered :
    LET p == Extract(RowOf(r), toStr(r.planetName))
    IN /\ \A field \in ParameterFields \ ParsedFields(RowOf(r)) :
            SyntheticInRange(toStr(r.planetName), SyntheticRanges[field], p[field])
       /\ \A f \in DOMAIN TierScores :
            (IF f = "size" THEN "radius" ELSE IF f = "orbit" THEN "period" ELSE IF f = "star" THEN "starTemp" ELSE f)
                \notin ParsedFields(RowOf(r))
              => FactorScores(p)[f] > 0

\* The all-synthetic row whose radius hash wraps to -2^31 has been
\* classified: the hash is 2^31 and the radius 0.3 + 0.3648 * 2.7.
SyntheticValuesInRangeWitness ==
  \E r \in Delivered :
    /\ RowOf(r) = Catalogue[45]
    /\ ParsedFields(RowOf(r)) = {}
    /\ createHash(toStr(r.planetName) \o <<"r","a","d","i","u","s">>) = [hi |-> Half \div 2, lo |-> 0]
    /\ r.parameters.radius = <<"1",".","2","8">>

\* The last call was one of the three prediction methods.
IsPredictionCall(call) == call.method \in {"predictHabitability", "classifyPlanets", "detectExoplanets"}

\* What the rule-based method of the call returns for its data.
RuleBasedPredictions(call) ==
  CASE call.method = "predictHabitability" -> predictHabitabilityRuleBased(call.data)
    [] call.method = "classifyPlanets" -> classifyPlanetsRuleBased(call.data)
    [] call.method = "detectExoplanets" ->
         [i \in 1..Len(call.data) |->
            [success |-> TRUE, planet_name |-> PredictionName(call.data[i], i - 1),
             prediction |-> validateDetection(call.data[i]).status,
             confidence |-> validateDetection(call.data[i]).confidence,
             model_used |-> "Rule-based Detection"]]

\* C28: whenever the call to the Python service threw or answered
\* success=false, predictHabitability, classifyPlanets and detectExoplanets
\* return the rule-based predictions for the data instead of failing.
FallbackReturnsRuleBased ==
  (IsPredictionCall(serviceCall) /\ serviceCall.answer \in {"throws", "failure"})
    => /\ serviceCall.returned.type = "object"
       /\ serviceCall.returned.predictions = RuleBasedPredictions(serviceCall)

\* A thrown failure of the Python service leaves usePythonService false; a
\* call on an initialized instance whose usePythonService is false does not
\* contact the Python service; and usePythonService becomes true only in a
\* step in which initializeModels ran.
PythonServiceStaysOff ==
  [][/\ (serviceCall' # serviceCall /\ serviceCall'.answer = "throws") => ~service'.usePythonService
     /\ (serviceCall' # serviceCall /\ IsPredictionCall(serviceCall')
            /\ service.isInitialized /\ ~service.usePythonService)
          => (~serviceCall'.contacted /\ ~service'.usePythonService)
     /\ (~service.usePythonService /\ service'.usePythonService)
          => (serviceCall'.initialized /\ service'.isInitialized)]_vars

\* A thrown failure has been followed by a call that went straight to the rules.
PythonServiceStaysOffWitness ==
  /\ IsPredictionCall(serviceCall)
  /\ service.isInitialized /\ ~service.usePythonService
  /\ ~serviceCall.initialized /\ ~serviceCall.contacted
  /\ serviceCall.returned.type = "object"

\* C29: POST /api/predict with a valid non-empty data array answers 200 with
\* success=true and a summary whose total_processed is the number of records,
\* for every model type; POST /api/predict/batch with at most 1000 records
\* answers with processed_records equal to the number of records, and with
\* more than 1000 records answers 400 without creating the ML service.
PredictRoutesAnswer ==
  /\ (http.route = "/api/predict" /\ Len(http.data) >= 1)
       => /\ http.status = 200 /\ http.success
          /\ http.summary.total_processed = Len(http.data)
          /\ http.summary.successful_predictions + http.summary.failed_predictions = Len(http.data)
  /\ (http.route = "/api/predict/batch" /\ Len(http.data) >= 1 /\ Len(http.data) <= 1000)
       => /\ http.status = 200 /\ http.success
          /\ http.summary.processed_records = Len(http.data)
  /\ (http.route = "/api/predict/batch" /\ Len(http.data) > 1000)
       => (http.status = 400 /\ ~http.serviceCreated)

\* A batch of more than 1000 records is answered 400 without an ML service,
\* and no request with data is answered 200.
RoutesNeverSucceed ==
  /\ (http.route = "/api/predict/batch" /\ Len(http.data) > 1000)
       => (http.status = 400 /\ ~http.serviceCreated /\ http.received = Len(http.data))
  /\ http.route # "none" => http.status \in {400, 500}
  /\ (http.route # "none" /\ Len(http.data) \in 1..1000) => http.status = 500

StuckProcessingPersists ==
  [][(isProcessing /\ ~timer.pending) => (isProcessing' /\ ~timer'.pending)]_vars

\* A callback that ran to its end delivered the sorted results once: they
\* are both predictions and the value handed to onResults, and isProcessing is false.
CompletedAnalysisDelivers ==
  [][(timer.pending /\ ~timer'.pending /\ ~uncaught')
       => /\ ~isProcessing'
          /\ predictions' = Results(PredictedResults(timer.selectedData, timer.startIndex))
          /\ predictionResults' = predictions']_vars
=============================================================================
